---- MODULE Spec2Model ----
(***************************************************************************)
(* Verification model of the Rwanda trade analysis scripts                 *)
(* (src/python_processing/*.py): the forecasting chain of                  *)
(* ComprehensiveRwandaTradePredictor, the growth / CAGR / share metrics    *)
(* of the commodity and export processors, the concentration index, the    *)
(* extraction of records from sheet rows and the location of header rows.  *)
(*                                                                         *)
(* Numbers: spreadsheet values are modelled as integers, every derived     *)
(* statistic as an exact rational [n |-> numerator, d |-> denominator]     *)
(* in lowest terms with d > 0.  Floating point rounding error is not       *)
(* modelled; explicit round(x, 2) calls are.                               *)
(***************************************************************************)
EXTENDS Integers, Sequences, FiniteSets, TLC

(***************************************************************************)
(* Bounds of the model                                                     *)
(***************************************************************************)
\* longest input series handed to forecast_time_series
MaxLen == 3
\* largest forecast horizon (periods)
MaxPeriods == 2

\* cell values of a series handed to the forecaster (trade balance may be negative)
Vals == {-2, 0, 3}
\* values a fitted statsmodels model may forecast
LibVals == {-1, 2}
\* an exactly linear series with positive slope
ScenarioSeries == {<<100, 110, 120, 130>>}

(***************************************************************************)
(* Exact rational arithmetic                                               *)
(***************************************************************************)
Abs(x) == IF x < 0 THEN -x ELSE x

RECURSIVE GCD(_, _)
GCD(a, b) == IF b = 0 THEN a ELSE GCD(b, a % b)

\* the rational num/den (den # 0) in lowest terms, denominator positive
Rat(num, den) ==
    LET g == GCD(Abs(num), Abs(den))
        s == IF den < 0 THEN -1 ELSE 1
    IN  [n |-> (s * num) \div g, d |-> (s * den) \div g]

RInt(k) == [n |-> k, d |-> 1]
RAdd(a, b) == Rat(a.n * b.d + b.n * a.d, a.d * b.d)
RSub(a, b) == Rat(a.n * b.d - b.n * a.d, a.d * b.d)
RMul(a, b) == Rat(a.n * b.n, a.d * b.d)
\* a / b for b # 0
RDiv(a, b) == Rat(a.n * b.d, a.d * b.n)
RLt(a, b) == a.n * b.d < b.n * a.d
RLe(a, b) == a.n * b.d <= b.n * a.d

RECURSIVE SumSeq(_)
SumSeq(s) == IF s = <<>> THEN 0 ELSE Head(s) + SumSeq(Tail(s))

RECURSIVE RSumSeq(_)
RSumSeq(s) == IF s = <<>> THEN RInt(0) ELSE RAdd(Head(s), RSumSeq(Tail(s)))

\* np.mean of a non-empty list of numbers
Mean(values) == Rat(SumSeq(values), Len(values))

\* all sequences over S of length lo..hi
SeqsOf(S, lo, hi) == UNION {[1..k -> S] : k \in lo..hi}

(***************************************************************************)
(* rwanda_trade_predictor.py : forecasting                                 *)
(***************************************************************************)
VARIABLES
    values,     \* forecast_time_series: the input series
    periods,    \* forecast_time_series: the horizon
    method,     \* forecast_time_series: the requested method
    lib,        \* what each library fit does on this series (environment)
    result,     \* the dict returned by forecast_time_series
    pc          \* "ready" before the call, "done" after it

forecastVars == <<values, periods, method, lib, result, pc>>

\* per-row metrics (commodity_data_processor.py, process_exports_commodity.py,
\* trade_analytics_pipeline.py, enhanced_export_analyzer.py)
VARIABLES
    series,     \* the quarterly values of one row, in column order
    metrics,    \* what the routine returned for them
    mop         \* the routine that was applied ("none" before the call)

metricVars == <<series, metrics, mop>>

\* listings over the rows of one sheet (process_exports_commodity.py,
\* enhanced_export_analyzer.py)
VARIABLES
    rows,       \* the data rows of the sheet
    report,     \* the listing the routine built, and how the routine ended
    lop         \* the routine that was applied ("none" before the call)

listingVars == <<rows, report, lop>>

\* concentration analysis (trade_analytics_pipeline.py, enhanced_export_analyzer.py)
VARIABLES
    weights,        \* what the routine reads from each record: its total
                    \* (perform_hhi_analysis) or its share_percentage
                    \* (analyze_export_concentration)
    concentration,  \* the index and its interpretation
    hop             \* the routine that was applied ("none" before the call)

hhiVars == <<weights, concentration, hop>>

\* record extraction from the rows of a sheet (all processors)
VARIABLES
    grid,           \* the rows of the sheet the row loop visits
    extraction,     \* how the routine ended and the records it emitted
    eop             \* the routine that was applied ("none" before the call)

extractVars == <<grid, extraction, eop>>

\* header location in a sheet read without headers
VARIABLES
    sheet,          \* the rows of the sheet, top to bottom
    located,        \* how header location ended, header and first data row
    sop             \* the routine that was applied ("none" before the call)

locatorVars == <<sheet, located, sop>>

\* rankings of extracted records (commodity_data_processor.py,
\* enhanced_export_analyzer.py)
VARIABLES
    extracted,      \* the ranking value of each record, in extraction order
    ranking,        \* the listing and summary the routine built from them
    kop             \* the routine that was applied ("none" before the call)

rankVars == <<extracted, ranking, kop>>

\* growth analysis of the overall series (trade_analytics_pipeline.py,
\* enhanced_export_analyzer.py)
VARIABLES
    overall,        \* the overall data: quarters, exports and imports
    growth,         \* the growth analysis built from it
    gop             \* the routine that was applied ("none" before the call)

growthVars == <<overall, growth, gop>>


\* regional and continental series of the predictor
\* (rwanda_trade_predictor.py)
VARIABLES
    blocks,         \* the rows of the 'Regional blocks' / 'Trade by continents' sheet
    regions,        \* the series loaded from it, by region and flow key
    rop             \* the routine that was applied ("none" before the call)

regionVars == <<blocks, regions, rop>>


\* quarter labels of the forecasts (rwanda_trade_predictor.py)
VARIABLES
    last_quarter,       \* the label of the last observed quarter
    forecast_periods,   \* the number of labels asked for
    next_quarters,      \* the labels returned
    qop                 \* the routine that was applied ("none" before the call)

quarterVars == <<last_quarter, forecast_periods, next_quarters, qop>>


\* saving a document (trade_analytics_pipeline.py, rwanda_trade_predictor.py,
\* commodity_data_processor.py, regional_blocks_analyzer.py)
VARIABLES
    document,       \* the data handed to the save routine
    disk,           \* the content of the output file before the call
    written,        \* the outcome of the call and the content of the file after it
    vop             \* the routine that was applied ("none" before the call)

saveVars == <<document, disk, written, vop>>


\* a run of a script (commodity_data_processor.py, regional_blocks_analyzer.py,
\* trade_analytics_pipeline.py)
VARIABLES
    script,         \* the script that runs
    step,           \* the number of the step the run is at
    outputs,        \* the output files written completely during this run
    ending          \* "running", "completed" (normal end) or "failed" (top-level failure)

runVars == <<script, step, outputs, ending>>


vars == <<values, periods, method, lib, result, pc, series, metrics, mop,
          rows, report, lop, weights, concentration, hop,
          grid, extraction, eop, sheet, located, sop,
          extracted, ranking, kop,
          overall, growth, gop,
          blocks, regions, rop,
          last_quarter, forecast_periods, next_quarters, qop,
          document, disk, written, vop,
          script, step, outputs, ending>>

NoResult == [method |-> "none"]

\* keys of self.models
Models == {"exp_smooth", "arima", "sarimax", "linear_trend", "ensemble"}

\* the names _forecast_ensemble iterates over
EnsembleMethods == <<"exponential_smoothing", "arima", "linear_trend">>

\* method.replace('_', '') on the names of EnsembleMethods
RemoveUnderscores(name) ==
    CASE name = "exponential_smoothing" -> "exponentialsmoothing"
      [] name = "arima" -> "arima"
      [] name = "linear_trend" -> "lineartrend"
      [] OTHER -> name

\* one executed estimator stage and whether it produced the result
Attempt(stage, ok) == [stage |-> stage, ok |-> ok]

\* the least-squares line of np.polyfit(arange(n), values, 1) evaluated at x = t:
\* intercept + slope * t with  slope = (n*Sxy - Sx*Sy)/D,
\* intercept = (Sy*Sxx - Sx*Sxy)/D,  D = n*Sxx - Sx^2
LinePred(vs, t) ==
    LET n   == Len(vs)
        Sx  == SumSeq([i \in 1..n |-> i - 1])
        Sxx == SumSeq([i \in 1..n |-> (i - 1) * (i - 1)])
        Sy  == SumSeq(vs)
        Sxy == SumSeq([i \in 1..n |-> (i - 1) * vs[i]])
        D   == n * Sxx - Sx * Sx
    IN  Rat((Sy * Sxx - Sx * Sxy) + (n * Sxy - Sx * Sy) * t, D)

\* max(0, pred)
Max0(r) == IF RLt(r, RInt(0)) THEN RInt(0) ELSE r

\* a linear trend evaluated one index too far
ForecastLinearTrend_NextIndex(vs, h, l) ==
    IF l.polyfit
    THEN [forecast   |-> [i \in 1..h |-> Max0(LinePred(vs, Len(vs) + i))],
          method     |-> "linear_trend",
          confidence |-> 65,
          attempts   |-> <<Attempt("linear_trend", TRUE)>>]
    ELSE [forecast   |-> [i \in 1..h |-> Mean(vs)],
          method     |-> "average",
          confidence |-> 50,
          attempts   |-> <<Attempt("linear_trend", FALSE), Attempt("average", TRUE)>>]

\* _forecast_linear_trend
ForecastLinearTrend(vs, h, l) ==
    IF l.polyfit
    THEN [forecast   |-> [i \in 1..h |-> Max0(LinePred(vs, Len(vs) + i - 1))],
          method     |-> "linear_trend",
          confidence |-> 65,
          attempts   |-> <<Attempt("linear_trend", TRUE)>>]
    ELSE [forecast   |-> [i \in 1..h |-> Mean(vs)],
          method     |-> "average",
          confidence |-> 50,
          attempts   |-> <<Attempt("linear_trend", FALSE), Attempt("average", TRUE)>>]

\* _forecast_arima
ForecastArima(vs, h, l) ==
    IF l.arima.ok
    THEN [forecast   |-> [i \in 1..h |-> RInt(l.arima.fc[i])],
          method     |-> "arima",
          confidence |-> 70,
          attempts   |-> <<Attempt("arima", TRUE)>>]
    ELSE LET r == ForecastLinearTrend(vs, h, l)
         IN  [r EXCEPT !.attempts = <<Attempt("arima", FALSE)>> \o @]

\* a fallback chain that goes from exponential smoothing to ARIMA
ForecastExponentialSmoothing_ViaArima(vs, h, l) ==
    IF l.es.ok
    THEN [forecast   |-> [i \in 1..h |-> RInt(l.es.fc[i])],
          method     |-> "exponential_smoothing",
          confidence |-> 75,
          attempts   |-> <<Attempt("exponential_smoothing", TRUE)>>]
    ELSE LET r == ForecastArima(vs, h, l)
         IN  [r EXCEPT !.attempts = <<Attempt("exponential_smoothing", FALSE)>> \o @]

\* _forecast_exponential_smoothing
ForecastExponentialSmoothing(vs, h, l) ==
    IF l.es.ok
    THEN [forecast   |-> [i \in 1..h |-> RInt(l.es.fc[i])],
          method     |-> "exponential_smoothing",
          confidence |-> 75,
          attempts   |-> <<Attempt("exponential_smoothing", TRUE)>>]
    ELSE LET r == ForecastLinearTrend(vs, h, l)
         IN  [r EXCEPT !.attempts = <<Attempt("exponential_smoothing", FALSE)>> \o @]

\* _forecast_sarimax
ForecastSarimax(vs, h, l) ==
    IF l.sarimax.ok
    THEN [forecast   |-> [i \in 1..h |-> RInt(l.sarimax.fc[i])],
          method     |-> "sarimax",
          confidence |-> 80,
          attempts   |-> <<Attempt("sarimax", TRUE)>>]
    ELSE LET r == ForecastArima(vs, h, l)
         IN  [r EXCEPT !.attempts = <<Attempt("sarimax", FALSE)>> \o @]

\* np.mean(forecasts, axis=0) for forecasts of equal length h
PointwiseMean(forecasts, h) ==
    [i \in 1..h |->
        RDiv(RSumSeq([k \in 1..Len(forecasts) |-> forecasts[k][i]]),
             RInt(Len(forecasts)))]

RECURSIVE ForecastEnsemble(_, _, _)
RECURSIVE ModelsCall(_, _, _, _)

\* the loop of _forecast_ensemble over methods[from..]: the results of the
\* lookups self.models[method.replace('_', '')] that did not raise
RECURSIVE EnsembleResults(_, _, _, _)
EnsembleResults(from, vs, h, l) ==
    IF from > Len(EnsembleMethods) THEN <<>>
    ELSE LET key == RemoveUnderscores(EnsembleMethods[from])
         IN  IF key \in Models
             THEN <<ModelsCall(key, vs, h, l)>> \o EnsembleResults(from + 1, vs, h, l)
             ELSE EnsembleResults(from + 1, vs, h, l)   \* KeyError: continue

\* an ensemble whose confidence is taken from its first component
ForecastEnsemble_ComponentConfidence(vs, h, l) ==
    LET rs == EnsembleResults(1, vs, h, l)
        forecasts == [k \in 1..Len(rs) |-> rs[k].forecast]
        RECURSIVE Flat(_)
        Flat(k) == IF k > Len(rs) THEN <<>> ELSE rs[k].attempts \o Flat(k + 1)
    IN  IF forecasts = <<>>
        THEN ForecastLinearTrend(vs, h, l)
        ELSE [forecast          |-> PointwiseMean(forecasts, h),
              method            |-> "ensemble",
              confidence        |-> rs[1].confidence,
              component_methods |-> EnsembleMethods,
              attempts          |-> Flat(1)]

\* _forecast_ensemble
ForecastEnsemble(vs, h, l) ==
    LET rs == EnsembleResults(1, vs, h, l)
        forecasts == [k \in 1..Len(rs) |-> rs[k].forecast]
        RECURSIVE Flat(_)
        Flat(k) == IF k > Len(rs) THEN <<>> ELSE rs[k].attempts \o Flat(k + 1)
    IN  IF forecasts = <<>>
        THEN ForecastLinearTrend(vs, h, l)
        ELSE [forecast          |-> PointwiseMean(forecasts, h),
              method            |-> "ensemble",
              confidence        |-> 85,
              component_methods |-> EnsembleMethods,
              attempts          |-> Flat(1)]

\* self.models[key](values, periods)
ModelsCall(key, vs, h, l) ==
    CASE key = "exp_smooth"   -> ForecastExponentialSmoothing(vs, h, l)
      [] key = "arima"        -> ForecastArima(vs, h, l)
      [] key = "sarimax"      -> ForecastSarimax(vs, h, l)
      [] key = "linear_trend" -> ForecastLinearTrend(vs, h, l)
      [] key = "ensemble"     -> ForecastEnsemble(vs, h, l)

\* the method forecast_time_series runs after `if method not in self.models`
ResolvedMethod(m) == IF m \notin Models THEN "ensemble" ELSE m

\* forecast_time_series.  Every estimator catches its own exceptions, so the
\* `except Exception` branch (average_fallback, 40) is never entered.
ForecastTimeSeries(vs, h, m, l) ==
    IF Len(vs) < 2
    THEN [forecast   |-> [i \in 1..h |-> IF vs = <<>> THEN RInt(0) ELSE Mean(vs)],
          method     |-> "average",
          confidence |-> 50,
          attempts   |-> <<>>]
    ELSE ModelsCall(ResolvedMethod(m), vs, h, l)

\* outcome of one statsmodels fit + forecast(h): raised, or h forecast values
LibOutcomes(h) ==
    {[ok |-> FALSE, fc |-> <<>>]} \cup {[ok |-> TRUE, fc |-> f] : f \in [1..h -> LibVals]}

ForecastInit ==
    /\ values \in SeqsOf(Vals, 0, MaxLen) \cup ScenarioSeries
    /\ periods \in 1..MaxPeriods
    /\ method \in Models \cup {"prophet"}
    /\ lib \in [es : LibOutcomes(periods), arima : LibOutcomes(periods),
                sarimax : LibOutcomes(periods), polyfit : BOOLEAN]
    /\ result = NoResult
    /\ pc = "ready"

ForecastIdle ==
    /\ values = <<>> /\ periods = 1 /\ method = "ensemble"
    /\ lib = [es |-> [ok |-> FALSE, fc |-> <<>>], arima |-> [ok |-> FALSE, fc |-> <<>>],
              sarimax |-> [ok |-> FALSE, fc |-> <<>>], polyfit |-> TRUE]
    /\ result = NoResult
    /\ pc = "idle"

\* one call forecast_time_series(values, periods, method)
CallForecastTimeSeries ==
    /\ pc = "ready"
    /\ result' = ForecastTimeSeries(values, periods, method, lib)
    /\ pc' = "done"
    /\ UNCHANGED <<values, periods, method, lib>>
    /\ UNCHANGED <<metricVars, listingVars, hhiVars, extractVars, locatorVars, rankVars, growthVars, regionVars, quarterVars, saveVars, runVars>>

(***************************************************************************)
(* Per-row metrics: growth rate, year-over-year growth, CAGR               *)
(***************************************************************************)
\* number of quarter columns ('2023Q1' .. '2025Q1')
NumQuarters == 9
\* longest list of present quarter cells handed to calculate_metrics_v3
MaxSeriesLen == 5

\* cell values of a row (present cells of any length)
MVals == {-1, 0, 2, 3}
\* cell values of a full nine-quarter row
QVals == {0, 1, 2}

\* enhanced_export_analyzer.process_overall_exports: the fixed export values,
\* in hundredths (402.14 is 40214)
OverallExportValues ==
    <<40214, 48474, 38811, 39911, 43161, 53764, 66700, 67745, 48082>>

\* ((current - previous) / previous) * 100, previous # 0
GrowthPct(current, previous) == RMul(Rat(current - previous, previous), RInt(100))

\* Python round(x, 2) on the exact value (ties to the even hundredth)
Round2(x) ==
    LET num == 100 * x.n
        q   == num \div x.d
        rem == num - q * x.d
    IN  IF 2 * rem < x.d THEN Rat(q, 100)
        ELSE IF 2 * rem > x.d THEN Rat(q + 1, 100)
        ELSE IF q % 2 = 0 THEN Rat(q, 100) ELSE Rat(q + 1, 100)

\* commodity_data_processor.analyze_trend
AnalyzeTrend(vs) ==
    IF Len(vs) < 3 THEN "Insufficient Data"
    ELSE LET n == Len(vs)
             r0 == vs[n - 2]
             r1 == vs[n - 1]
             r2 == vs[n]
         IN  IF r2 > r1 /\ r1 > r0 THEN "Strong Growth"
             ELSE IF r2 > r1 THEN "Moderate Growth"
             ELSE IF r2 < r1 /\ r1 < r0 THEN "Declining"
             ELSE "Stable"

\* commodity_data_processor.calculate_metrics_v3: the qoq_growth entry
V3QoqGrowth(qv) ==
    LET n == Len(qv)
    IN  IF qv[n - 1] # 0
        THEN "qoq_growth" :> Round2(GrowthPct(qv[n], qv[n - 1]))
        ELSE "qoq_growth" :> RInt(0)

\* commodity_data_processor.calculate_metrics_v3: the yoy_growth entry
V3YoyGrowth(qv) ==
    LET n == Len(qv)
    IN  IF qv[n - 4] # 0
        THEN "yoy_growth" :> Round2(GrowthPct(qv[n], qv[n - 4]))
        ELSE "yoy_growth" :> RInt(0)

\* commodity_data_processor.calculate_metrics_v3 on list(quarterly_data.values())
CalculateMetricsV3(qv) ==
    IF qv = <<>> THEN <<>>
    ELSE LET n == Len(qv)
         IN  ("latest_value" :> RInt(qv[n]))
             @@ (IF n >= 2 THEN V3QoqGrowth(qv) ELSE <<>>)
             @@ (IF n >= 5 THEN V3YoyGrowth(qv) ELSE <<>>)
             @@ ("trend" :> AnalyzeTrend(qv))

\* process_exports_commodity.calculate_growth_rate (dashboard_overview_processor
\* has the same function); previous is never NaN after fillna(0)
CalculateGrowthRate(current, previous) ==
    IF previous = 0 THEN RInt(0) ELSE GrowthPct(current, previous)

\* process_exports_commodity.calculate_yoy_growth_rate
CalculateYoyGrowthRate(vl) ==
    IF Len(vl) < 2 THEN RInt(0)
    ELSE LET n == Len(vl)
             current_year_avg  == RInt(vl[n])
             previous_year_avg == Mean(SubSeq(vl, 1, n - 1))
         IN  IF previous_year_avg = RInt(0) THEN RInt(0)
             ELSE RMul(RDiv(RSub(current_year_avg, previous_year_avg), previous_year_avg),
                       RInt(100))

\* the entries of vl that are > 0
RECURSIVE Positive(_)
Positive(vl) ==
    IF vl = <<>> THEN <<>>
    ELSE IF Head(vl) > 0 THEN <<Head(vl)>> \o Positive(Tail(vl)) ELSE Positive(Tail(vl))

RECURSIVE MaxSeq(_)
MaxSeq(vl) ==
    IF Len(vl) = 1 THEN vl[1]
    ELSE LET m == MaxSeq(Tail(vl)) IN IF Head(vl) >= m THEN Head(vl) ELSE m

\* process_exports_commodity: the trend label from the growth rate
GrowthTrend(growth_rate) ==
    IF RLt(RInt(10), growth_rate) THEN "Strong Growth"
    ELSE IF RLt(RInt(0), growth_rate) THEN "Moderate Growth"
    ELSE IF RLt(growth_rate, RInt(-10)) THEN "Declining"
    ELSE "Stable"

\* process_exports_commodity: the commodity object built from one row's
\* values_list (always one value per quarter column)
ProcessExportsCommodityRow(vl) ==
    LET latest_value == IF vl # <<>> THEN vl[Len(vl)] ELSE 0
        growth_rate  == IF Len(vl) >= 2
                        THEN CalculateGrowthRate(latest_value, vl[Len(vl) - 1])
                        ELSE RInt(0)
        non_zero     == Positive(vl)
    IN  [total_exports   |-> RInt(SumSeq(vl)),
         average_exports |-> IF non_zero # <<>> THEN Mean(non_zero) ELSE RInt(0),
         max_exports     |-> RInt(IF vl # <<>> THEN MaxSeq(vl) ELSE 0),
         quarters_active |-> Len(non_zero),
         growth_rate     |-> RDiv(growth_rate, RInt(100)),
         share_percentage |-> RInt(0),
         latest_value    |-> RInt(latest_value),
         qoq_growth      |-> growth_rate,
         yoy_growth      |-> CalculateYoyGrowthRate(vl),
         trend           |-> GrowthTrend(growth_rate)]

\* a number, the value base ** exp - 1 kept symbolic, or a raised exception
Num(v) == [kind |-> "num", v |-> v]
Raised(e) == [kind |-> "raise", error |-> e]
PowMinus1(base, exp) ==
    IF base = RInt(1) THEN Num(0)
    ELSE IF base = RInt(0) THEN Num(-1)
    ELSE [kind |-> "pow", base |-> base, exp |-> exp]

\* trade_analytics_pipeline.calculate_cagr(values, periods)
CalculateCagr(vs, nperiods) ==
    IF Len(vs) < 2 THEN Num(0)
    ELSE LET start_value == vs[1]
             end_value   == vs[Len(vs)]
         IN  IF start_value <= 0 THEN Num(0)
             ELSE PowMinus1(Rat(end_value, start_value), RDiv(RInt(1), nperiods))

\* enhanced_export_analyzer.calculate_growth_rate(values)
EnhancedCalculateGrowthRate(vs) ==
    IF Len(vs) < 2 THEN Num(0)
    ELSE IF vs[1] = 0 THEN Num(0)      \* ZeroDivisionError caught
    ELSE PowMinus1(Rat(vs[Len(vs)], vs[1]), Rat(1, Len(vs)))

\* enhanced_export_analyzer.analyze_export_growth: the cagr entry
AnalyzeExportGrowthCagr(vs) ==
    IF Len(vs) > 1
    THEN IF vs[1] = 0 THEN Raised("ZeroDivisionError")
         ELSE PowMinus1(Rat(vs[Len(vs)], vs[1]), RDiv(RInt(1), Rat(Len(vs), 4)))
    ELSE Num(0)

NoMetrics == [kind |-> "none"]

MetricInit ==
    /\ series \in SeqsOf(MVals, 0, MaxSeriesLen)
                    \cup [1..NumQuarters -> QVals]
                    \cup {OverallExportValues}
    /\ metrics = NoMetrics
    /\ mop = "none"

MetricIdle ==
    /\ series = <<>>
    /\ metrics = NoMetrics
    /\ mop = "idle"

\* commodity_data_processor.process_commodity_row computes the metrics of the
\* present quarter cells of a row (at most one per quarter column)
CallCalculateMetricsV3 ==
    /\ mop = "none"
    /\ Len(series) <= NumQuarters
    /\ series # OverallExportValues
    /\ metrics' = CalculateMetricsV3(series)
    /\ mop' = "calculate_metrics_v3"
    /\ UNCHANGED series
    /\ UNCHANGED <<forecastVars, listingVars, hhiVars, extractVars, locatorVars, rankVars, growthVars, regionVars, quarterVars, saveVars, runVars>>

\* process_exports_commodity builds the object of one row; values_list has one
\* value per quarter column
CallProcessExportsCommodityRow ==
    /\ mop = "none"
    /\ Len(series) = NumQuarters
    /\ series # OverallExportValues
    /\ metrics' = ProcessExportsCommodityRow(series)
    /\ mop' = "process_exports_commodity"
    /\ UNCHANGED series
    /\ UNCHANGED <<forecastVars, listingVars, hhiVars, extractVars, locatorVars, rankVars, growthVars, regionVars, quarterVars, saveVars, runVars>>

\* perform_growth_analysis: calculate_cagr(values, len(values) / 4)
CallCalculateCagr ==
    /\ mop = "none"
    /\ series # OverallExportValues
    /\ metrics' = CalculateCagr(series, Rat(Len(series), 4))
    /\ mop' = "calculate_cagr"
    /\ UNCHANGED series
    /\ UNCHANGED <<forecastVars, listingVars, hhiVars, extractVars, locatorVars, rankVars, growthVars, regionVars, quarterVars, saveVars, runVars>>

\* process_*_exports: calculate_growth_rate(values) on the values of a row that
\* has at least one
CallEnhancedCalculateGrowthRate ==
    /\ mop = "none"
    /\ Len(series) >= 1
    /\ series # OverallExportValues
    /\ metrics' = EnhancedCalculateGrowthRate(series)
    /\ mop' = "calculate_growth_rate"
    /\ UNCHANGED series
    /\ UNCHANGED <<forecastVars, listingVars, hhiVars, extractVars, locatorVars, rankVars, growthVars, regionVars, quarterVars, saveVars, runVars>>

\* analyze_export_growth on the fixed overall export values
CallAnalyzeExportGrowth ==
    /\ mop = "none"
    /\ series = OverallExportValues
    /\ metrics' = AnalyzeExportGrowthCagr(series)
    /\ mop' = "analyze_export_growth"
    /\ UNCHANGED series
    /\ UNCHANGED <<forecastVars, listingVars, hhiVars, extractVars, locatorVars, rankVars, growthVars, regionVars, quarterVars, saveVars, runVars>>

(***************************************************************************)
(* Listings: totals, shares and summaries over the rows of one sheet       *)
(***************************************************************************)
\* most data rows of a sheet
MaxRows == 3
\* most leading quarter cells of a row that are not blank
MaxFilled == 2

\* values of the present quarter cells of a data row
LVals == {-1, 0, 2}

\* a data row: its leading quarter cells; the remaining cells up to
\* NumQuarters are blank (NaN)
RowSet == SeqsOf(LVals, 0, MaxFilled)

\* enhanced_export_analyzer.process_overall_exports: total_exports = sum(exports)
OverallTotalExports == Rat(SumSeq(OverallExportValues), 100)

\* stable sort of a list of dicts by dict[field], descending
\* (list.sort(key=..., reverse=True))
RECURSIVE InsertDesc(_, _, _)
InsertDesc(x, s, field) ==
    IF s = <<>> THEN <<x>>
    ELSE IF RLt(Head(s)[field], x[field]) THEN <<x>> \o s
    ELSE <<Head(s)>> \o InsertDesc(x, Tail(s), field)

RECURSIVE SortDesc(_, _)
SortDesc(s, field) ==
    IF s = <<>> THEN <<>>
    ELSE InsertDesc(s[Len(s)], SortDesc(SubSeq(s, 1, Len(s) - 1), field), field)

\* process_exports_commodity: values_list of a row after
\* pd.to_numeric(...).fillna(0): one value per quarter column
ValuesList(row) == [q \in 1..NumQuarters |-> IF q <= Len(row) THEN row[q] ELSE 0]

\* a share guarded by `whole != 0`
ExportsCommodityShare_NonZeroGuard(total, total_all) ==
    IF total_all # RInt(0)
    THEN RMul(RDiv(total, total_all), RInt(100))
    ELSE RInt(0)

\* process_exports_commodity: share_percentage of one commodity
ExportsCommodityShare(total, total_all) ==
    IF RLt(RInt(0), total_all)
    THEN RMul(RDiv(total, total_all), RInt(100))
    ELSE RInt(0)

\* a listing whose shares are taken against the largest record total
ProcessExportsCommodity_ShareOfLargest(rws) ==
    IF rws = <<>> THEN [outcome |-> "exit", whole |-> RInt(0), listing |-> <<>>]
    ELSE LET objs == [i \in 1..Len(rws) |->
                        ("key" :> i) @@ ProcessExportsCommodityRow(ValuesList(rws[i]))]
             largest == MaxSeq([i \in 1..Len(rws) |-> objs[i].total_exports.n])
             shared == [i \in 1..Len(rws) |->
                        [objs[i] EXCEPT !.share_percentage =
                            ExportsCommodityShare(objs[i].total_exports, RInt(largest))]]
         IN  [outcome |-> "ok", whole |-> RInt(largest),
              listing |-> SortDesc(shared, "share_percentage")]

\* process_exports_commodity: the commodity list written to
\* exportscommodity_data.json (rws = the rws with a numeric SITC section)
ProcessExportsCommodity(rws) ==
    IF rws = <<>> THEN [outcome |-> "exit", whole |-> RInt(0), listing |-> <<>>]
    ELSE LET objs == [i \in 1..Len(rws) |->
                        ("key" :> i) @@ ProcessExportsCommodityRow(ValuesList(rws[i]))]
             total_all_exports == RSumSeq([i \in 1..Len(rws) |-> objs[i].total_exports])
             shared == [i \in 1..Len(rws) |->
                        [objs[i] EXCEPT !.share_percentage =
                            ExportsCommodityShare(objs[i].total_exports, total_all_exports)]]
         IN  [outcome |-> "ok", whole |-> total_all_exports,
              listing |-> SortDesc(shared, "share_percentage")]

\* enhanced_export_analyzer: share_percentage of one record
EnhancedShare(total) == RMul(RDiv(total, OverallTotalExports), RInt(100))

\* enhanced_export_analyzer.process_country_exports / process_commodity_exports:
\* the records of the rws from index `from` on that have a quarter value > 0
RECURSIVE EnhancedRecords(_, _)
EnhancedRecords(rws, from) ==
    IF from > Len(rws) THEN <<>>
    ELSE LET vs == Positive(rws[from])
         IN  IF vs # <<>>
             THEN <<[key              |-> from,
                     total_exports    |-> RInt(SumSeq(vs)),
                     average_exports  |-> Mean(vs),
                     max_exports      |-> RInt(MaxSeq(vs)),
                     quarters_active  |-> Len(vs),
                     growth_rate      |-> EnhancedCalculateGrowthRate(vs),
                     share_percentage |-> EnhancedShare(RInt(SumSeq(vs)))]>>
                  \o EnhancedRecords(rws, from + 1)
             ELSE EnhancedRecords(rws, from + 1)

\* enhanced_export_analyzer.process_country_exports; the mean of
\* quarters_active over no countries is NaN, not an exception
ProcessCountryExports(rws) ==
    LET countries_data == SortDesc(EnhancedRecords(rws, 1), "total_exports")
    IN  [outcome |-> "ok", whole |-> OverallTotalExports, listing |-> countries_data]

\* enhanced_export_analyzer.process_commodity_exports; the summary takes
\* max(commodities_data, key=...), which raises ValueError on an empty list
ProcessCommodityExports(rws) ==
    LET commodities_data == SortDesc(EnhancedRecords(rws, 1), "total_exports")
    IN  IF commodities_data = <<>>
        THEN [outcome |-> "raise", whole |-> OverallTotalExports, listing |-> <<>>]
        ELSE [outcome |-> "ok", whole |-> OverallTotalExports,
              listing |-> commodities_data]

NoReport == [outcome |-> "none", whole |-> RInt(0), listing |-> <<>>]

ListingInit ==
    /\ rows \in SeqsOf(RowSet, 0, MaxRows)
    /\ report = NoReport
    /\ lop = "none"

ListingIdle ==
    /\ rows = <<>>
    /\ report = NoReport
    /\ lop = "idle"

\* process_exports_commodity.process_exports_commodity
CallProcessExportsCommodity ==
    /\ lop = "none"
    /\ report' = ProcessExportsCommodity(rows)
    /\ lop' = "process_exports_commodity"
    /\ UNCHANGED rows
    /\ UNCHANGED <<forecastVars, metricVars, hhiVars, extractVars, locatorVars, rankVars, growthVars, regionVars, quarterVars, saveVars, runVars>>

\* EnhancedExportAnalyzer.process_country_exports
CallProcessCountryExports ==
    /\ lop = "none"
    /\ report' = ProcessCountryExports(rows)
    /\ lop' = "process_country_exports"
    /\ UNCHANGED rows
    /\ UNCHANGED <<forecastVars, metricVars, hhiVars, extractVars, locatorVars, rankVars, growthVars, regionVars, quarterVars, saveVars, runVars>>

\* EnhancedExportAnalyzer.process_commodity_exports
CallProcessCommodityExports ==
    /\ lop = "none"
    /\ report' = ProcessCommodityExports(rows)
    /\ lop' = "process_commodity_exports"
    /\ UNCHANGED rows
    /\ UNCHANGED <<forecastVars, metricVars, hhiVars, extractVars, locatorVars, rankVars, growthVars, regionVars, quarterVars, saveVars, runVars>>

(***************************************************************************)
(* Concentration index (HHI) and its interpretation                        *)
(***************************************************************************)
\* most records of a listing handed to a concentration analysis
MaxRecords == 4
\* record totals, resp. share percentages, read by the analysis
Weights == {0, 5, 10, 20, 30, 50}
\* a longer listing whose totals give an index of exactly 0.15
BoundaryListings == {<<25, 15, 15, 10, 10, 10, 10, 5>>}

\* sum(share ** 2 for share in shares)
CalculateHhi(shares) == RSumSeq([i \in DOMAIN shares |-> RMul(shares[i], shares[i])])

\* trade_analytics_pipeline.perform_hhi_analysis.interpret_hhi
PipelineInterpretHhi(hhi_value) ==
    IF RLt(hhi_value, Rat(1, 100)) THEN "Highly competitive market"
    ELSE IF RLt(hhi_value, Rat(15, 100)) THEN "Unconcentrated market"
    ELSE IF RLt(hhi_value, Rat(25, 100)) THEN "Moderately concentrated"
    ELSE "Highly concentrated market"

\* an interpretation whose 0.15 boundary belongs to the lower class
EnhancedInterpretHhi_InclusiveBoundary(hhi_value) ==
    IF RLt(hhi_value, Rat(1, 100)) THEN "Highly competitive"
    ELSE IF RLe(hhi_value, Rat(15, 100)) THEN "Unconcentrated"
    ELSE IF RLt(hhi_value, Rat(25, 100)) THEN "Moderately concentrated"
    ELSE "Highly concentrated"

\* enhanced_export_analyzer.analyze_export_concentration.interpret_hhi
EnhancedInterpretHhi(hhi_value) ==
    IF RLt(hhi_value, Rat(1, 100)) THEN "Highly competitive"
    ELSE IF RLt(hhi_value, Rat(15, 100)) THEN "Unconcentrated"
    ELSE IF RLt(hhi_value, Rat(25, 100)) THEN "Moderately concentrated"
    ELSE "Highly concentrated"

\* "High" if hhi > 0.25 else "Medium" if hhi > 0.15 else "Low"
RiskLevel(hhi_value) ==
    IF RLt(Rat(25, 100), hhi_value) THEN "High"
    ELSE IF RLt(Rat(15, 100), hhi_value) THEN "Medium"
    ELSE "Low"

\* perform_hhi_analysis on the totals of the records of one listing
PerformHhiAnalysis(totals) ==
    LET total_all == SumSeq(totals)
        shares == IF total_all > 0
                  THEN [i \in DOMAIN totals |-> Rat(totals[i], total_all)]
                  ELSE <<>>
        hhi == IF shares # <<>> THEN CalculateHhi(shares) ELSE RInt(0)
    IN  [hhi |-> hhi, interpretation |-> PipelineInterpretHhi(hhi)]

\* analyze_export_concentration on the share_percentage of the records
AnalyzeExportConcentration(share_percentages) ==
    LET shares == [i \in DOMAIN share_percentages |-> Rat(share_percentages[i], 100)]
        hhi == CalculateHhi(shares)
    IN  [hhi |-> hhi, interpretation |-> EnhancedInterpretHhi(hhi),
         risk_level |-> RiskLevel(hhi)]

NoConcentration == [hhi |-> RInt(0), interpretation |-> "none"]

HhiInit ==
    /\ weights \in SeqsOf(Weights, 0, MaxRecords) \cup BoundaryListings
    /\ concentration = NoConcentration
    /\ hop = "none"

HhiIdle ==
    /\ weights = <<>>
    /\ concentration = NoConcentration
    /\ hop = "idle"

\* TradeAnalyticsPipeline.perform_hhi_analysis
CallPerformHhiAnalysis ==
    /\ hop = "none"
    /\ concentration' = PerformHhiAnalysis(weights)
    /\ hop' = "perform_hhi_analysis"
    /\ UNCHANGED weights
    /\ UNCHANGED <<forecastVars, metricVars, listingVars, extractVars, locatorVars, rankVars, growthVars, regionVars, quarterVars, saveVars, runVars>>

\* EnhancedExportAnalyzer.analyze_export_concentration
CallAnalyzeExportConcentration ==
    /\ hop = "none"
    /\ concentration' = AnalyzeExportConcentration(weights)
    /\ hop' = "analyze_export_concentration"
    /\ UNCHANGED weights
    /\ UNCHANGED <<forecastVars, metricVars, listingVars, extractVars, locatorVars, rankVars, growthVars, regionVars, quarterVars, saveVars, runVars>>

(***************************************************************************)
(* Record extraction from the rows of a sheet                              *)
(***************************************************************************)
\* most rows of a sheet below its header
MaxGridRows == 2

\* a cell of a sheet: blank (NaN), a number, or text; s is str(cell)
BlankCell == [t |-> "blank", s |-> "nan", v |-> 0]
TextCell(s) == [t |-> "str", s |-> s, v |-> 0]
IntCell(s, v) == [t |-> "int", s |-> s, v |-> v]
FloatCell(s, v) == [t |-> "float", s |-> s, v |-> v]

\* identifier cells (first column) of the rows; only their type and text matter
IdCells ==
    {BlankCell, TextCell("Kenya"), TextCell(" Kenya "), TextCell("Total"),
     TextCell("Source: NISR"), TextCell("1.2.3"),
     IntCell("5", 5), IntCell("10", 10), FloatCell("5.5", 0)}

\* the leading period cells of a row; the remaining cells up to NumQuarters
\* are blank
PeriodCells ==
    {<<>>, <<IntCell("2", 2)>>, <<IntCell("0", 0)>>, <<TextCell("n/a")>>,
     <<BlankCell, IntCell("3", 3)>>}

GridRows == [id : IdCells, cells : PeriodCells]

\* row.iloc[col] for the period column q (1-based among the period columns)
CellAt(row, q) == IF q <= Len(row.cells) THEN row.cells[q] ELSE BlankCell

\* pd.notna(cell)
NotNa(cell) == cell.t # "blank"

\* str.strip() on the identifier texts
Strip(s) == IF s = " Kenya " THEN "Kenya" ELSE s

\* str.lower() on the identifier texts
Lower(s) ==
    CASE s = "Kenya" -> "kenya"
      [] s = " Kenya " -> " kenya "
      [] s = "Total" -> "total"
      [] s = "Source: NISR" -> "source: nisr"
      [] OTHER -> s

\* 'Source:' in s
ContainsSource(s) == s = "Source: NISR"
\* '*' in s
ContainsStar(s) == FALSE
\* s.replace('.', '').isdigit()
IsDigitWithoutDots(s) == s \in {"5", "10", "5.5", "1.2.3"}
\* float(s) does not raise ValueError
FloatParses(s) == s \in {"5", "10", "5.5", "2", "0", "3"}
\* str(int(float(s)))
StrIntFloat(s) == CASE s = "5.5" -> "5" [] OTHER -> s
\* re.match(r'^\d+$', s)
MatchesDigits(s) == s \in {"5", "10"}

\* the ten single-digit SITC sections
SitcSections == {"0", "1", "2", "3", "4", "5", "6", "7", "8", "9"}

\* a numeric cell
Number(cell) == cell.t \in {"int", "float"}
\* a numeric cell with a value > 0
PositiveNumber(cell) == Number(cell) /\ cell.v > 0

\* the period columns of a row whose cell is not blank
PresentColumns(row) == {q \in 1..NumQuarters : NotNa(CellAt(row, q))}
\* the period columns of a row for which float(cell) succeeds
NumberColumns(row) == {q \in 1..NumQuarters : Number(CellAt(row, q))}
\* the period columns of a row with float(cell) > 0
PositiveColumns(row) == {q \in 1..NumQuarters : PositiveNumber(CellAt(row, q))}

\* the values of a dict of period values, in column order
RECURSIVE ValuesFrom(_, _)
ValuesFrom(d, q) ==
    IF q > NumQuarters THEN <<>>
    ELSE IF q \in DOMAIN d THEN <<d[q]>> \o ValuesFrom(d, q + 1)
    ELSE ValuesFrom(d, q + 1)
DictValues(d) == ValuesFrom(d, 1)

\* how a routine ended and what it emitted
Extracted(outcome, records) == [outcome |-> outcome, records |-> records]

\* dict[key] = record on a dict kept as the list of its entries in insertion
\* order: a later assignment to a key replaces the entry in place
DictPut(entries, rec) ==
    IF \E i \in DOMAIN entries : entries[i].key = rec.key
    THEN [i \in DOMAIN entries |-> IF entries[i].key = rec.key THEN rec ELSE entries[i]]
    ELSE Append(entries, rec)

\* the concatenation of the per-row emissions (<<>> for a skipped row)
RECURSIVE Flatten(_)
Flatten(ss) == IF ss = <<>> THEN <<>> ELSE Head(ss) \o Flatten(Tail(ss))

\* --- commodity_data_processor.process_commodity_row ------------------------
\* quarterly_data of a row: the cells that are not blank, text counted as 0
QuarterlyData(row) ==
    [q \in PresentColumns(row) |->
        IF CellAt(row, q).t = "str" THEN 0 ELSE CellAt(row, q).v]

\* the sitc_section read from the identifier cell; "raise" when float() fails
SitcSectionOf(id) ==
    IF IsDigitWithoutDots(id.s)
    THEN IF FloatParses(id.s) THEN StrIntFloat(id.s) ELSE "raise"
    ELSE Strip(id.s)

\* process_commodity_row: the commodity of row i, <<>> for None
ProcessCommodityRow(g, i) ==
    LET row == g[i]
        sitc_section == SitcSectionOf(row.id)
    IN  IF ~NotNa(row.id) THEN <<>>
        ELSE IF sitc_section = "raise" THEN <<>>
        ELSE IF sitc_section \notin SitcSections THEN <<>>
        ELSE <<[key     |-> sitc_section,
                values  |-> QuarterlyData(row),
                metrics |-> CalculateMetricsV3(DictValues(QuarterlyData(row))),
                row     |-> i]>>

\* commodity_data_processor.process_commodity_sheet: the row loop over the
\* rows below the header
ProcessCommoditySheet(g) ==
    Extracted("ok", Flatten([i \in 1..Len(g) |-> ProcessCommodityRow(g, i)]))

\* --- process_exports_commodity.process_exports_commodity -------------------
\* str(float(int(s))) of an integer cell
FloatStr(s) == CASE s = "5" -> "5.0" [] s = "10" -> "10.0" [] OTHER -> s

\* df['SITC SECTION'].astype(str) of row i: a column holding any text has
\* dtype object and keeps each cell's own type; a column of integers only is
\* int64; otherwise (numbers and blanks) it is float64 and 5 reads '5.0'
SitcColumnStr(g, i) ==
    LET types == {g[k].id.t : k \in 1..Len(g)}
    IN  IF "str" \in types \/ types = {"int"} THEN g[i].id.s
        ELSE IF g[i].id.t = "int" THEN FloatStr(g[i].id.s) ELSE g[i].id.s

\* pd.to_numeric(cell, errors='coerce') followed by fillna(0)
CoerceNumeric(cell) == IF cell.t \in {"int", "float"} THEN cell.v ELSE 0

\* the commodity list of the rows whose SITC SECTION matches ^\d+$, sorted by
\* share_percentage; sys.exit(1) when no row matches
ExtractExportsCommodity(g) ==
    LET valid == [i \in 1..Len(g) |-> MatchesDigits(SitcColumnStr(g, i))]
        values_list(i) == [q \in 1..NumQuarters |-> CoerceNumeric(CellAt(g[i], q))]
        objs == Flatten([i \in 1..Len(g) |->
                    IF valid[i]
                    THEN <<[key    |-> Strip(g[i].id.s),
                            values |-> values_list(i),
                            row    |-> i]
                           @@ ProcessExportsCommodityRow(values_list(i))>>
                    ELSE <<>>])
        total_all_exports == RSumSeq([k \in DOMAIN objs |-> objs[k].total_exports])
        shared == [k \in DOMAIN objs |->
                    [objs[k] EXCEPT !.share_percentage =
                        ExportsCommodityShare(objs[k].total_exports, total_all_exports)]]
    IN  IF objs = <<>> THEN Extracted("exit", <<>>)
        ELSE Extracted("ok", SortDesc(shared, "share_percentage"))

\* --- enhanced_export_analyzer.process_country_exports ----------------------
\* str(cell).strip() if pd.notna(cell) else ''
NameOf(id) == IF NotNa(id) THEN Strip(id.s) ELSE ""

\* str.title() on the identifier texts
Title(s) == CASE s = "Source: NISR" -> "Source: Nisr" [] OTHER -> s

\* clean_country_name: none of the names used here is in country_mapping, so
\* the result is country.strip().title()
CleanCountryName(country) == Title(Strip(country))

EnhancedCountryRow(g, i) ==
    LET country_name == NameOf(g[i].id)
        quarterly_values == [q \in PositiveColumns(g[i]) |-> CellAt(g[i], q).v]
        vs == DictValues(quarterly_values)
    IN  IF country_name = "" \/ Lower(country_name) \in {"nan", "source:", "total", ""}
        THEN <<>>
        ELSE IF quarterly_values = <<>> THEN <<>>
        ELSE <<[key              |-> CleanCountryName(country_name),
                values           |-> quarterly_values,
                total_exports    |-> RInt(SumSeq(vs)),
                share_percentage |-> EnhancedShare(RInt(SumSeq(vs))),
                row              |-> i]>>

ExtractCountryExports(g) ==
    Extracted("ok", SortDesc(Flatten([i \in 1..Len(g) |-> EnhancedCountryRow(g, i)]),
                             "total_exports"))

\* --- trade_analytics_pipeline.process_country_data -------------------------
PipelineCountryRow(g, i) ==
    LET country_name == NameOf(g[i].id)
        vals == [q \in NumberColumns(g[i]) |-> CellAt(g[i], q).v]
    IN  IF country_name = "" \/ country_name = "nan"
           \/ ContainsSource(country_name) \/ ContainsStar(country_name)
        THEN <<>>
        ELSE IF vals = <<>> THEN <<>>
        ELSE <<[key |-> country_name, values |-> vals, row |-> i]>>

ProcessCountryData(g) ==
    Extracted("ok", Flatten([i \in 1..Len(g) |-> PipelineCountryRow(g, i)]))

\* trade_analytics_pipeline.perform_share_analysis: country_share["exports"],
\* a dict keyed by country built from the list of process_country_data
RECURSIVE CountryShare(_, _)
CountryShare(countries, entries) ==
    IF countries = <<>> THEN entries
    ELSE LET country == Head(countries)
             entry == [key    |-> country.key,
                       value  |-> SumSeq(DictValues(country.values)),
                       values |-> country.values,
                       row    |-> country.row]
         IN  CountryShare(Tail(countries), DictPut(entries, entry))

PerformShareAnalysis(g) ==
    Extracted("ok", CountryShare(ProcessCountryData(g).records, <<>>))

\* --- trade_analytics_pipeline.process_commodity_data ------------------------
\* float(val) of a text cell raises ValueError, which nothing catches
Truthy(cell) == cell.s \notin {"0", "0.0", ""}

PipelineCommodityRow(g, i) ==
    LET section == g[i].id
        vals == [q \in PresentColumns(g[i]) |-> CellAt(g[i], q).v]
    IN  IF ~NotNa(section) \/ section.s \in {"SITC SECTION", "Total Estimates"}
        THEN <<>>
        ELSE IF ~Truthy(section) THEN <<>>
        ELSE <<[key |-> section.s, values |-> vals, row |-> i]>>

\* row i makes process_commodity_data raise
PipelineCommodityRaises(g, i) ==
    /\ NotNa(g[i].id) /\ g[i].id.s \notin {"SITC SECTION", "Total Estimates"}
    /\ \E q \in 1..NumQuarters : CellAt(g[i], q).t = "str"

ProcessCommodityData(g) ==
    IF \E i \in 1..Len(g) : PipelineCommodityRaises(g, i)
    THEN Extracted("raise", <<>>)
    ELSE Extracted("ok", Flatten([i \in 1..Len(g) |-> PipelineCommodityRow(g, i)]))

\* --- rwanda_trade_predictor._process_country_data ---------------------------
\* float(cell) if pd.notna(cell) else 0, and 0 when float() raises
FloatOrZero(cell) == IF cell.t \in {"int", "float"} THEN cell.v ELSE 0

RECURSIVE PredictorCountries(_, _, _)
PredictorCountries(g, i, countries) ==
    IF i > Len(g) THEN countries
    ELSE LET country == NameOf(g[i].id)
             vals == [q \in 1..NumQuarters |-> FloatOrZero(CellAt(g[i], q))]
         IN  IF country = "" \/ country = "nan" \/ ContainsSource(country)
             THEN PredictorCountries(g, i + 1, countries)
             ELSE IF SumSeq(vals) > 0
             THEN PredictorCountries(g, i + 1,
                      DictPut(countries, [key |-> country, values |-> vals, row |-> i]))
             ELSE PredictorCountries(g, i + 1, countries)

PredictorProcessCountryData(g) == Extracted("ok", PredictorCountries(g, 1, <<>>))

\* --- the routines applied to a sheet -----------------------------------------
ExtractionRoutines ==
    {"process_commodity_sheet", "process_exports_commodity", "process_country_exports",
     "process_country_data", "perform_share_analysis", "process_commodity_data",
     "_process_country_data"}

RunExtraction(op, g) ==
    CASE op = "process_commodity_sheet"   -> ProcessCommoditySheet(g)
      [] op = "process_exports_commodity" -> ExtractExportsCommodity(g)
      [] op = "process_country_exports"   -> ExtractCountryExports(g)
      [] op = "process_country_data"      -> ProcessCountryData(g)
      [] op = "perform_share_analysis"    -> PerformShareAnalysis(g)
      [] op = "process_commodity_data"    -> ProcessCommodityData(g)
      [] op = "_process_country_data"     -> PredictorProcessCountryData(g)

NoExtraction == Extracted("none", <<>>)

ExtractInit ==
    /\ grid \in SeqsOf(GridRows, 0, MaxGridRows)
    /\ extraction = NoExtraction
    /\ eop = "none"

ExtractIdle ==
    /\ grid = <<>>
    /\ extraction = NoExtraction
    /\ eop = "idle"

\* CommodityDataProcessor.process_commodity_sheet
CallProcessCommoditySheet ==
    /\ eop = "none"
    /\ extraction' = ProcessCommoditySheet(grid)
    /\ eop' = "process_commodity_sheet"
    /\ UNCHANGED grid
    /\ UNCHANGED <<forecastVars, metricVars, listingVars, hhiVars, locatorVars, rankVars, growthVars, regionVars, quarterVars, saveVars, runVars>>

\* process_exports_commodity.process_exports_commodity
CallExtractExportsCommodity ==
    /\ eop = "none"
    /\ extraction' = ExtractExportsCommodity(grid)
    /\ eop' = "process_exports_commodity"
    /\ UNCHANGED grid
    /\ UNCHANGED <<forecastVars, metricVars, listingVars, hhiVars, locatorVars, rankVars, growthVars, regionVars, quarterVars, saveVars, runVars>>

\* EnhancedExportAnalyzer.process_country_exports
CallExtractCountryExports ==
    /\ eop = "none"
    /\ extraction' = ExtractCountryExports(grid)
    /\ eop' = "process_country_exports"
    /\ UNCHANGED grid
    /\ UNCHANGED <<forecastVars, metricVars, listingVars, hhiVars, locatorVars, rankVars, growthVars, regionVars, quarterVars, saveVars, runVars>>

\* TradeAnalyticsPipeline.process_country_data
CallProcessCountryData ==
    /\ eop = "none"
    /\ extraction' = ProcessCountryData(grid)
    /\ eop' = "process_country_data"
    /\ UNCHANGED grid
    /\ UNCHANGED <<forecastVars, metricVars, listingVars, hhiVars, locatorVars, rankVars, growthVars, regionVars, quarterVars, saveVars, runVars>>

\* TradeAnalyticsPipeline.perform_share_analysis after process_country_data
CallPerformShareAnalysis ==
    /\ eop = "none"
    /\ extraction' = PerformShareAnalysis(grid)
    /\ eop' = "perform_share_analysis"
    /\ UNCHANGED grid
    /\ UNCHANGED <<forecastVars, metricVars, listingVars, hhiVars, locatorVars, rankVars, growthVars, regionVars, quarterVars, saveVars, runVars>>

\* TradeAnalyticsPipeline.process_commodity_data
CallProcessCommodityData ==
    /\ eop = "none"
    /\ extraction' = ProcessCommodityData(grid)
    /\ eop' = "process_commodity_data"
    /\ UNCHANGED grid
    /\ UNCHANGED <<forecastVars, metricVars, listingVars, hhiVars, locatorVars, rankVars, growthVars, regionVars, quarterVars, saveVars, runVars>>

\* ComprehensiveRwandaTradePredictor._process_country_data
CallPredictorProcessCountryData ==
    /\ eop = "none"
    /\ extraction' = PredictorProcessCountryData(grid)
    /\ eop' = "_process_country_data"
    /\ UNCHANGED grid
    /\ UNCHANGED <<forecastVars, metricVars, listingVars, hhiVars, locatorVars, rankVars, growthVars, regionVars, quarterVars, saveVars, runVars>>

(***************************************************************************)
(* Header location                                                         *)
(***************************************************************************)
\* most rows of a sheet read without headers
MaxSheetRows == 5

\* a row of the sheet, as far as header location can tell rows apart: whether
\* one of its cells contains the routine's marker token ('SITC SECTION',
\* 'Partner'), in which column, and whether it is written as in the source
\* ("exact") or in another letter case ("other")
PlainRow == [marker |-> "none", col |-> 0]
MarkerRows == [marker : {"exact", "other"}, col : {0, 1}]
SheetRows == {PlainRow} \cup MarkerRows

\* row.astype(str).str.contains('SITC SECTION', case=False, na=False).any()
ContainsAnyCase(row) == row.marker # "none"
\* any('SITC SECTION' in str(cell) for cell in row.values)
ContainsExact(row) == row.marker = "exact"
\* 'SITC SECTION' in str(row.iloc[0]).upper()
FirstCellContainsAnyCase(row) == row.marker # "none" /\ row.col = 0

\* the index (from 0) of the first row, top to bottom, whose flag is set;
\* -1 when the loop ends without one
FirstIndex(flags) ==
    IF \E i \in DOMAIN flags : flags[i]
    THEN (CHOOSE i \in DOMAIN flags : flags[i] /\ \A k \in 1..(i - 1) : ~flags[k]) - 1
    ELSE -1

\* how header location ended, the header index and the first data row index
Located(outcome, header, data_start) ==
    [outcome |-> outcome, header |-> header, data_start |-> data_start]

\* a header search that keeps the last matching row
FindDataStart_LastMatch(sh) ==
    IF \E i \in DOMAIN sh : ContainsAnyCase(sh[i])
    THEN (CHOOSE i \in DOMAIN sh :
             ContainsAnyCase(sh[i]) /\ \A k \in (i + 1)..Len(sh) : ~ContainsAnyCase(sh[k])) - 1
    ELSE 3

\* commodity_data_processor.find_data_start
FindDataStart(sh) ==
    LET idx == FirstIndex([i \in DOMAIN sh |-> ContainsAnyCase(sh[i])])
    IN  IF idx # -1 THEN idx ELSE 3

\* commodity_data_processor.process_commodity_sheet: find_data_start, then
\* extract_headers reads df.iloc[data_start_row] (IndexError past the last
\* row, caught by the routine, which returns []), then the data rows are
\* df.iloc[data_start_row + 1:]
LocateCommoditySheet(sh) ==
    LET data_start_row == FindDataStart(sh)
    IN  IF data_start_row >= Len(sh) THEN Located("error", data_start_row, -1)
        ELSE Located("ok", data_start_row, data_start_row + 1)

\* process_exports_commodity: header search, sys.exit(1) without a header,
\* else the sheet is read again with header=header_row_idx
LocateExportsCommodity(sh) ==
    LET header_row_idx == FirstIndex([i \in DOMAIN sh |-> ContainsExact(sh[i])])
    IN  IF header_row_idx = -1 THEN Located("exit", -1, -1)
        ELSE Located("ok", header_row_idx, header_row_idx + 1)

\* regional_blocks_analyzer.load_regional_blocks_data: header search with the
\* fallback header 2 / data 3; df.iloc[header_row_idx] raises IndexError past
\* the last row, caught by the routine, which returns None
LoadRegionalBlocksData(sh) ==
    LET idx == FirstIndex([i \in DOMAIN sh |-> ContainsExact(sh[i])])
        header_row_idx == IF idx # -1 THEN idx ELSE 2
        data_start_idx == IF idx # -1 THEN idx + 1 ELSE 3
    IN  IF header_row_idx >= Len(sh) THEN Located("error", header_row_idx, -1)
        ELSE Located("ok", header_row_idx, data_start_idx)

\* rwanda_trade_predictor._process_commodity_data: data_start = idx + 1 for
\* the first row whose first cell holds the marker, else 0; the routine keeps
\* no header index, header is data_start - 1; an empty sheet returns {}
PredictorFindDataStart(sh) ==
    LET idx == FirstIndex([i \in DOMAIN sh |-> FirstCellContainsAnyCase(sh[i])])
        data_start == IF idx # -1 THEN idx + 1 ELSE 0
    IN  Located("ok", data_start - 1, data_start)

NoLocation == Located("none", -1, -1)

LocatorInit ==
    /\ sheet \in SeqsOf(SheetRows, 0, MaxSheetRows)
    /\ located = NoLocation
    /\ sop = "none"

LocatorIdle ==
    /\ sheet = <<>>
    /\ located = NoLocation
    /\ sop = "idle"

\* CommodityDataProcessor.process_commodity_sheet (header location)
CallLocateCommoditySheet ==
    /\ sop = "none"
    /\ located' = LocateCommoditySheet(sheet)
    /\ sop' = "process_commodity_sheet"
    /\ UNCHANGED sheet
    /\ UNCHANGED <<forecastVars, metricVars, listingVars, hhiVars, extractVars, rankVars, growthVars, regionVars, quarterVars, saveVars, runVars>>

\* process_exports_commodity.process_exports_commodity (header search)
CallLocateExportsCommodity ==
    /\ sop = "none"
    /\ located' = LocateExportsCommodity(sheet)
    /\ sop' = "process_exports_commodity"
    /\ UNCHANGED sheet
    /\ UNCHANGED <<forecastVars, metricVars, listingVars, hhiVars, extractVars, rankVars, growthVars, regionVars, quarterVars, saveVars, runVars>>

\* RegionalBlocksAnalyzer.load_regional_blocks_data
CallLoadRegionalBlocksData ==
    /\ sop = "none"
    /\ located' = LoadRegionalBlocksData(sheet)
    /\ sop' = "load_regional_blocks_data"
    /\ UNCHANGED sheet
    /\ UNCHANGED <<forecastVars, metricVars, listingVars, hhiVars, extractVars, rankVars, growthVars, regionVars, quarterVars, saveVars, runVars>>

\* ComprehensiveRwandaTradePredictor._process_commodity_data (data start)
CallPredictorFindDataStart ==
    /\ sop = "none"
    /\ located' = PredictorFindDataStart(sheet)
    /\ sop' = "_process_commodity_data"
    /\ UNCHANGED sheet
    /\ UNCHANGED <<forecastVars, metricVars, listingVars, hhiVars, extractVars, rankVars, growthVars, regionVars, quarterVars, saveVars, runVars>>

(***************************************************************************)
(* Rankings: top-N listings and re-export summary                          *)
(***************************************************************************)
\* most records of a listing that is ranked
MaxListed == 6
\* ranking values (latest_value, total_exports, total_reexports) of a record
RankVals == {0, 1, 2}
\* a record: whether it carries the ranking field, and its value
Ranked == {[present |-> FALSE, v |-> 0]} \cup [present : {TRUE}, v : RankVals]
\* a listing longer than the largest N (top_10_countries)
LongListings == {[i \in 1..11 |-> [present |-> TRUE, v |-> 1 + (i % 2)]]}

\* c.get('latest_value', 0)
GetValue(c) == IF c.present THEN c.v ELSE 0

\* the records with their position in extraction order as identity
Entries(recs) == [i \in DOMAIN recs |-> [id |-> i, value |-> RInt(GetValue(recs[i]))]]

\* lst[:n]
Truncate(lst, n) == SubSeq(lst, 1, IF Len(lst) < n THEN Len(lst) ELSE n)

Ranking(outcome, listing, top, n, first) ==
    [outcome |-> outcome, listing |-> listing, top |-> top, n |-> n, first |-> first]

\* a summary that takes the first five commodities as they come
GenerateSummary_Unsorted(commodities) ==
    IF commodities = <<>> THEN Ranking("ok", <<>>, <<>>, 5, 0)
    ELSE Ranking("ok", Entries(commodities), Truncate(Entries(commodities), 5), 5, 0)

\* commodity_data_processor.generate_summary for the commodities of one data
\* type: top_<data_type>_commodities
GenerateSummary(commodities) ==
    IF commodities = <<>> THEN Ranking("ok", <<>>, <<>>, 5, 0)
    ELSE LET top_commodities == Truncate(SortDesc(Entries(commodities), "value"), 5)
         IN  Ranking("ok", Entries(commodities), top_commodities, 5, 0)

\* enhanced_export_analyzer.process_country_exports: countries and
\* top_10_countries
RankCountryExports(countries) ==
    LET countries_data == SortDesc(Entries(countries), "value")
    IN  Ranking("ok", countries_data, Truncate(countries_data, 10), 10, 0)

\* enhanced_export_analyzer.process_commodity_exports: commodities and
\* top_commodities; max() over no commodities raises ValueError
RankCommodityExports(commodities) ==
    LET commodities_data == SortDesc(Entries(commodities), "value")
    IN  IF commodities_data = <<>> THEN Ranking("raise", <<>>, <<>>, 5, 0)
        ELSE Ranking("ok", commodities_data, Truncate(commodities_data, 5), 5, 0)

\* enhanced_export_analyzer.process_reexport_data: the 'countries' listing
\* and summary.top_reexport_country (0 stands for None); the commodities
\* listing and top_reexport_commodity are built the same way
ProcessReexportData(reexport_countries) ==
    Ranking("ok", SortDesc(Entries(reexport_countries), "value"), <<>>, 0,
            IF reexport_countries # <<>> THEN Entries(reexport_countries)[1].id ELSE 0)

NoRanking == Ranking("none", <<>>, <<>>, 0, 0)

RankInit ==
    /\ extracted \in SeqsOf(Ranked, 0, MaxListed) \cup LongListings
    /\ ranking = NoRanking
    /\ kop = "none"

RankIdle ==
    /\ extracted = <<>>
    /\ ranking = NoRanking
    /\ kop = "idle"

\* the records of the enhanced analyzer exist only with a total > 0
PositiveTotals == \A i \in DOMAIN extracted : extracted[i].present /\ extracted[i].v > 0

\* CommodityDataProcessor.generate_summary
CallGenerateSummary ==
    /\ kop = "none"
    /\ ranking' = GenerateSummary(extracted)
    /\ kop' = "generate_summary"
    /\ UNCHANGED extracted
    /\ UNCHANGED <<forecastVars, metricVars, listingVars, hhiVars, extractVars, locatorVars, growthVars, regionVars, quarterVars, saveVars, runVars>>

\* EnhancedExportAnalyzer.process_country_exports (ranking part)
CallRankCountryExports ==
    /\ kop = "none"
    /\ PositiveTotals
    /\ ranking' = RankCountryExports(extracted)
    /\ kop' = "process_country_exports"
    /\ UNCHANGED extracted
    /\ UNCHANGED <<forecastVars, metricVars, listingVars, hhiVars, extractVars, locatorVars, growthVars, regionVars, quarterVars, saveVars, runVars>>

\* EnhancedExportAnalyzer.process_commodity_exports (ranking part)
CallRankCommodityExports ==
    /\ kop = "none"
    /\ PositiveTotals
    /\ ranking' = RankCommodityExports(extracted)
    /\ kop' = "process_commodity_exports"
    /\ UNCHANGED extracted
    /\ UNCHANGED <<forecastVars, metricVars, listingVars, hhiVars, extractVars, locatorVars, growthVars, regionVars, quarterVars, saveVars, runVars>>

\* EnhancedExportAnalyzer.process_reexport_data (ranking part)
CallProcessReexportData ==
    /\ kop = "none"
    /\ PositiveTotals
    /\ ranking' = ProcessReexportData(extracted)
    /\ kop' = "process_reexport_data"
    /\ UNCHANGED extracted
    /\ UNCHANGED <<forecastVars, metricVars, listingVars, hhiVars, extractVars, locatorVars, growthVars, regionVars, quarterVars, saveVars, runVars>>

(***************************************************************************)
(* Growth analysis of the overall series                                   *)
(***************************************************************************)
\* most quarters of an overall series other than the fixed ones
MaxQuarterCount == 5
\* values of the exports and of the imports series
GExports == {0, 100, 105}
GImports == {0, 100}

\* the quarter labels 2023Q1 .. 2025Q1 of process_overall_trade and
\* process_overall_exports
QuarterLabels ==
    [i \in 1..NumQuarters |-> [year |-> 2023 + ((i - 1) \div 4), q |-> 1 + ((i - 1) % 4)]]

\* trade_analytics_pipeline.process_overall_trade: the fixed series, in
\* hundredths
OverallTrade ==
    [key |-> "overall", quarters |-> QuarterLabels,
     exports |-> <<36763, 45350, 34962, 35268, 40118, 50896, 62667, 62606, 45844>>,
     imports |-> <<90433, 96541, 100248, 94890, 88952, 107888, 115824, 109055, 86979>>]

\* enhanced_export_analyzer.process_overall_exports: the fixed series
OverallExports ==
    [key |-> "overall_exports", quarters |-> QuarterLabels,
     exports |-> OverallExportValues, imports |-> <<>>]

RAbs(r) == Rat(Abs(r.n), r.d)

\* a growth rate, with the position of the quarter it was computed for
RateAt(i, r) == [at |-> i, none |-> FALSE, rate |-> r]
NoneAt(i) == [at |-> i, none |-> TRUE, rate |-> RInt(0)]

\* perform_growth_analysis.calculate_qoq_growth(values)
CalculateQoqGrowth(vs) ==
    [k \in 1..(IF Len(vs) = 0 THEN 0 ELSE Len(vs) - 1) |->
        IF vs[k] # 0 THEN RateAt(k + 1, Rat(vs[k + 1] - vs[k], vs[k]))
        ELSE RateAt(k + 1, RInt(0))]

\* quarters.index(label) if label in quarters else -1 (positions from 1, 0
\* for -1)
IndexOf(quarters, label) ==
    IF \E j \in DOMAIN quarters : quarters[j] = label
    THEN CHOOSE j \in DOMAIN quarters :
            /\ quarters[j] = label
            /\ \A l \in 1..(j - 1) : quarters[l] # label
    ELSE 0

\* perform_growth_analysis.calculate_yoy_growth(values, quarters)
CalculateYoyGrowth(vs, quarters) ==
    [i \in 1..Len(vs) |->
        LET current_quarter == quarters[i]
        IN  IF current_quarter.year \in {2024, 2025}
            THEN LET prev_quarter == [current_quarter EXCEPT !.year = @ - 1]
                     prev_idx     == IndexOf(quarters, prev_quarter)
                 IN  IF prev_idx >= 1 /\ vs[prev_idx] # 0
                     THEN RateAt(i, Rat(vs[i] - vs[prev_idx], vs[prev_idx]))
                     ELSE NoneAt(i)
            ELSE NoneAt(i)]

NotNone(e) == ~e.none
\* [x for x in rates if x is not None]
WithoutNone(rates) == SelectSeq(rates, NotNone)

\* the insight of quarter pair (i, i + 1) of one flow, if its change is
\* significant
ChangeInsight(flow, qoq, i) ==
    IF i < Len(qoq) /\ RLt(RInt(10), RAbs(RMul(qoq[i].rate, RInt(100))))
    THEN <<[kind |-> "qoq", flow |-> flow, from |-> i, to |-> i + 1,
            direction |-> IF RLt(RInt(0), qoq[i].rate) THEN "increased" ELSE "decreased"]>>
    ELSE <<>>

\* for i, quarter in enumerate(quarters[1:], 1): ...
RECURSIVE ChangeInsights(_, _, _, _)
ChangeInsights(exports_qoq, imports_qoq, i, last) ==
    IF i > last THEN <<>>
    ELSE ChangeInsight("Exports", exports_qoq, i)
             \o ChangeInsight("Imports", imports_qoq, i)
             \o ChangeInsights(exports_qoq, imports_qoq, i + 1, last)

\* exports_cagr > 0
CagrPositive(cagr) ==
    \/ cagr.kind = "num" /\ cagr.v > 0
    \/ cagr.kind = "pow" /\ RLt(RInt(1), cagr.base)

CagrInsight(flow, cagr) ==
    IF CagrPositive(cagr) THEN <<[kind |-> "cagr", flow |-> flow]>> ELSE <<>>

\* the positions of the quarter labels a list of rates was computed for
Positions(rates) == [k \in DOMAIN rates |-> rates[k].at]

\* perform_growth_analysis: the insights on significant changes
Insights(quarters, exports_qoq, imports_qoq) ==
    ChangeInsights(exports_qoq, imports_qoq, 1, Len(quarters) - 1)

\* TradeAnalyticsPipeline.perform_growth_analysis on self.data['overall']
PerformGrowthAnalysis(o) ==
    LET quarters    == o.quarters
        exports_qoq == CalculateQoqGrowth(o.exports)
        imports_qoq == CalculateQoqGrowth(o.imports)
        exports_yoy == CalculateYoyGrowth(o.exports, quarters)
        imports_yoy == CalculateYoyGrowth(o.imports, quarters)
        exports_cagr == CalculateCagr(o.exports, Rat(Len(quarters), 4))
        imports_cagr == CalculateCagr(o.imports, Rat(Len(quarters), 4))
    IN  [outcome |-> "ok",
         qoq |-> [exports |-> exports_qoq, imports |-> imports_qoq,
                  quarters |-> [k \in 1..(IF Len(quarters) = 0 THEN 0 ELSE Len(quarters) - 1) |-> k + 1]],
         yoy |-> [exports |-> WithoutNone(exports_yoy),
                  imports |-> WithoutNone(imports_yoy),
                  quarters |-> Positions(WithoutNone(exports_yoy))],
         cagr |-> [exports |-> exports_cagr, imports |-> imports_cagr],
         insights |-> Insights(quarters, exports_qoq, imports_qoq)
                          \o CagrInsight("Exports", exports_cagr)
                          \o CagrInsight("Imports", imports_cagr)]

\* analyze_export_growth: a rate is appended only if the earlier value is
\* not 0
RECURSIVE GrowthOver(_, _, _)
GrowthOver(vs, lag, i) ==
    IF i > Len(vs) THEN <<>>
    ELSE (IF vs[i - lag] # 0
          THEN <<RateAt(i, Rat(vs[i] - vs[i - lag], vs[i - lag]))>>
          ELSE <<>>) \o GrowthOver(vs, lag, i + 1)

\* EnhancedExportAnalyzer.analyze_export_growth on
\* self.data['overall_exports']
AnalyzeExportGrowth(o) ==
    LET cagr == AnalyzeExportGrowthCagr(o.exports)
    IN  IF cagr.kind = "raise" THEN [outcome |-> "raise", error |-> cagr.error]
        ELSE [outcome |-> "ok",
              quarterly_growth_rates |-> GrowthOver(o.exports, 1, 2),
              yoy_growth_rates |-> GrowthOver(o.exports, 4, 5),
              cagr |-> cagr,
              quarters |-> [k \in 1..(IF Len(o.quarters) = 0 THEN 0 ELSE Len(o.quarters) - 1) |-> k + 1]]

NoGrowth == [outcome |-> "none"]

GrowthInit ==
    /\ overall \in
          UNION {[key : {"overall"}, quarters : {SubSeq(QuarterLabels, 1, n)},
                  exports : [1..n -> GExports], imports : [1..n -> GImports]]
                 \cup [key : {"overall_exports"}, quarters : {SubSeq(QuarterLabels, 1, n)},
                       exports : [1..n -> GExports], imports : {<<>>}]
                 : n \in 0..MaxQuarterCount}
          \cup {OverallTrade, OverallExports}
    /\ growth = NoGrowth
    /\ gop = "none"

GrowthIdle ==
    /\ overall = [key |-> "none", quarters |-> <<>>, exports |-> <<>>, imports |-> <<>>]
    /\ growth = NoGrowth
    /\ gop = "idle"

\* TradeAnalyticsPipeline.perform_growth_analysis
CallPerformGrowthAnalysis ==
    /\ gop = "none"
    /\ overall.key = "overall"
    /\ growth' = PerformGrowthAnalysis(overall)
    /\ gop' = "perform_growth_analysis"
    /\ UNCHANGED overall
    /\ UNCHANGED <<forecastVars, metricVars, listingVars, hhiVars, extractVars, locatorVars, rankVars, regionVars, quarterVars, saveVars, runVars>>

\* EnhancedExportAnalyzer.analyze_export_growth
CallAnalyzeExportGrowthRates ==
    /\ gop = "none"
    /\ overall.key = "overall_exports"
    /\ growth' = AnalyzeExportGrowth(overall)
    /\ gop' = "analyze_export_growth"
    /\ UNCHANGED overall
    /\ UNCHANGED <<forecastVars, metricVars, listingVars, hhiVars, extractVars, locatorVars, rankVars, regionVars, quarterVars, saveVars, runVars>>

(***************************************************************************)
(* Regional and continental series of the predictor                        *)
(***************************************************************************)
\* most rows of a regional sheet after its first row
MaxRegionRows == 2

\* the flows a row of the sheet can belong to
SheetFlows == {"exports", "imports"}
\* first cells of the rows
RegionNames ==
    {TextCell("EAC"), TextCell("SADC"), TextCell("WORLD"), TextCell("Source: NISR"), BlankCell}
\* leading period cells of the rows; the remaining cells are blank
RegionCells == {<<>>, <<IntCell("1", 1)>>, <<IntCell("2", 2), TextCell("n/a")>>}
\* a row: its first cell, its period cells and the flow its values belong to
RegionRows == [id : RegionNames, cells : RegionCells, flow : SheetFlows]

\* for col_idx in range(1, 10): float(cell) if pd.notna(cell) else 0, 0 on
\* any exception
QuarterlyValues(row) == [q \in 1..NumQuarters |-> FloatOrZero(CellAt(row, q))]

\* the same list of values under every flow key
RegionData(row, flow_keys) == [key \in flow_keys |-> QuarterlyValues(row)]

RECURSIVE RegionsFrom(_, _, _, _, _)
RegionsFrom(df, idx, skipWorld, flow_keys, found) ==
    IF idx > Len(df) THEN found
    ELSE LET region == NameOf(df[idx].id)
         IN  IF \/ region = "" \/ region = "nan"
                \/ (~skipWorld /\ ContainsSource(region))
                \/ (skipWorld /\ region = "WORLD")
             THEN RegionsFrom(df, idx + 1, skipWorld, flow_keys, found)
             ELSE RegionsFrom(df, idx + 1, skipWorld, flow_keys,
                      DictPut(found, [key |-> region, row |-> idx,
                                      flows |-> RegionData(df[idx], flow_keys)]))

\* ComprehensiveRwandaTradePredictor._process_regional_blocks(df): the rows
\* from the second on
ProcessRegionalBlocks(df) ==
    IF df = <<>> THEN <<>>
    ELSE RegionsFrom(df, 2, FALSE, {"exports", "imports", "re_exports", "total_trade"}, <<>>)

\* ComprehensiveRwandaTradePredictor._process_continental_data(df)
ProcessContinentalData(df) ==
    IF df = <<>> THEN <<>>
    ELSE RegionsFrom(df, 2, TRUE, {"exports", "imports", "re_exports"}, <<>>)

RegionInit ==
    /\ blocks \in SeqsOf(RegionRows, 0, MaxRegionRows + 1)
    /\ \A i \in DOMAIN blocks : i = 1 => blocks[i] = [id |-> BlankCell, cells |-> <<>>, flow |-> "exports"]
    /\ regions = <<>>
    /\ rop = "none"

RegionIdle ==
    /\ blocks = <<>>
    /\ regions = <<>>
    /\ rop = "idle"

\* _process_regional_blocks
CallProcessRegionalBlocks ==
    /\ rop = "none"
    /\ regions' = ProcessRegionalBlocks(blocks)
    /\ rop' = "_process_regional_blocks"
    /\ UNCHANGED blocks
    /\ UNCHANGED <<forecastVars, metricVars, listingVars, hhiVars, extractVars, locatorVars, rankVars, growthVars, quarterVars, saveVars, runVars>>

\* _process_continental_data
CallProcessContinentalData ==
    /\ rop = "none"
    /\ regions' = ProcessContinentalData(blocks)
    /\ rop' = "_process_continental_data"
    /\ UNCHANGED blocks
    /\ UNCHANGED <<forecastVars, metricVars, listingVars, hhiVars, extractVars, locatorVars, rankVars, growthVars, quarterVars, saveVars, runVars>>

(***************************************************************************)
(* Quarter labels of the forecasts                                         *)
(***************************************************************************)
\* most labels asked for (generate_comprehensive_predictions asks for 4)
MaxForecastPeriods == 4

\* labels of the form <year>Q<q>
QuarterTexts ==
    {"2023Q1", "2023Q2", "2023Q3", "2023Q4", "2024Q1", "2024Q2", "2024Q3", "2024Q4",
     "2025Q1", "2025Q2", "2025Q3", "2025Q4"}
\* labels the routine cannot parse
OtherTexts == {"", "2025", "Q1 2025", "2025-Q1", "2025Q1Q2"}

\* last_quarter.split('Q')
SplitQ(s) ==
    CASE s \in QuarterTexts ->
            <<CASE s \in {"2023Q1", "2023Q2", "2023Q3", "2023Q4"} -> "2023"
                [] s \in {"2024Q1", "2024Q2", "2024Q3", "2024Q4"} -> "2024"
                [] OTHER -> "2025",
              CASE s \in {"2023Q1", "2024Q1", "2025Q1"} -> "1"
                [] s \in {"2023Q2", "2024Q2", "2025Q2"} -> "2"
                [] s \in {"2023Q3", "2024Q3", "2025Q3"} -> "3"
                [] OTHER -> "4">>
      [] s = "" -> <<"">>
      [] s = "2025" -> <<"2025">>
      [] s = "Q1 2025" -> <<"", "1 2025">>
      [] s = "2025-Q1" -> <<"2025-", "1">>
      [] s = "2025Q1Q2" -> <<"2025", "1", "2">>

\* int(s): the number, or ValueError
IntOf(s) ==
    CASE s = "1" -> [ok |-> TRUE, v |-> 1]
      [] s = "2" -> [ok |-> TRUE, v |-> 2]
      [] s = "3" -> [ok |-> TRUE, v |-> 3]
      [] s = "4" -> [ok |-> TRUE, v |-> 4]
      [] s = "2023" -> [ok |-> TRUE, v |-> 2023]
      [] s = "2024" -> [ok |-> TRUE, v |-> 2024]
      [] s = "2025" -> [ok |-> TRUE, v |-> 2025]
      [] OTHER -> [ok |-> FALSE, v |-> 0]

\* year, quarter = last_quarter.split('Q'); int(year); int(quarter)
ParseQuarter(s) ==
    LET parts == SplitQ(s)
    IN  IF Len(parts) = 2 /\ IntOf(parts[1]).ok /\ IntOf(parts[2]).ok
        THEN [ok |-> TRUE, year |-> IntOf(parts[1]).v, quarter |-> IntOf(parts[2]).v]
        ELSE [ok |-> FALSE, year |-> 0, quarter |-> 0]

\* f"{year}Q{quarter}"
Label(year, quarter) == [year |-> year, quarter |-> quarter]

\* the loop of generate_next_quarters from the state (year, quarter)
RECURSIVE NextFrom(_, _, _)
NextFrom(year, quarter, n) ==
    IF n = 0 THEN <<>>
    ELSE IF quarter + 1 > 4
         THEN <<Label(year + 1, 1)>> \o NextFrom(year + 1, 1, n - 1)
         ELSE <<Label(year, quarter + 1)>> \o NextFrom(year, quarter + 1, n - 1)

\* ComprehensiveRwandaTradePredictor.generate_next_quarters
GenerateNextQuarters(last, n) ==
    LET p == ParseQuarter(last)
    IN  IF p.ok THEN NextFrom(p.year, p.quarter, n)
        ELSE [k \in 1..n |-> Label(2025, k + 1)]

QuarterInit ==
    /\ last_quarter \in QuarterTexts \cup OtherTexts
    /\ forecast_periods \in 0..MaxForecastPeriods
    /\ next_quarters = <<>>
    /\ qop = "none"

QuarterIdle ==
    /\ last_quarter = "2025Q1"
    /\ forecast_periods = 0
    /\ next_quarters = <<>>
    /\ qop = "idle"

\* generate_next_quarters
CallGenerateNextQuarters ==
    /\ qop = "none"
    /\ next_quarters' = GenerateNextQuarters(last_quarter, forecast_periods)
    /\ qop' = "generate_next_quarters"
    /\ UNCHANGED <<last_quarter, forecast_periods>>
    /\ UNCHANGED <<forecastVars, metricVars, listingVars, hhiVars, extractVars, locatorVars, rankVars, growthVars, regionVars, saveVars, runVars>>

(***************************************************************************)
(* Saving a document                                                       *)
(***************************************************************************)
\* most items of a container of the document
MaxItems == 2

\* a value of the document: its type, whether it is NaN (floats), its items
\* (containers)
Node(kind, nan, items) == [kind |-> kind, nan |-> nan, items |-> items]

\* Python floats and ints, numpy floats and ints, strings, and objects of
\* any other type
Leaves ==
    {Node("float", b, <<>>) : b \in BOOLEAN} \cup {Node("npfloat", b, <<>>) : b \in BOOLEAN}
        \cup {Node(k, FALSE, <<>>) : k \in {"int", "npint", "str", "other"}}
\* the elements of a numpy array of floats
ArrayItems == {Node("npfloat", b, <<>>) : b \in BOOLEAN}
ContainerKinds == {"list", "dict", "tuple"}

\* leaves, containers of leaves and arrays
Level1 ==
    Leaves \cup {Node(k, FALSE, s) : k \in ContainerKinds, s \in SeqsOf(Leaves, 0, MaxItems)}
           \cup {Node("ndarray", FALSE, s) : s \in SeqsOf(ArrayItems, 0, MaxItems)}
\* a dict with one value, which may be nested one level deeper
Documents ==
    {Node("dict", FALSE, <<v>>) :
        v \in Level1 \cup {Node(k, FALSE, <<w>>) : k \in ContainerKinds, w \in Level1}}

\* ndarray.tolist(): a list of Python floats
ToList(items) == [i \in DOMAIN items |-> Node("float", items[i].nan, <<>>)]

\* trade_analytics_pipeline.save_json.convert_numpy_types (and the same
\* function of enhanced_export_analyzer.save_json)
RECURSIVE ConvertNumpyTypes(_)
ConvertNumpyTypes(obj) ==
    CASE obj.kind = "npint" -> Node("int", FALSE, <<>>)
      [] obj.kind = "npfloat" ->
            IF obj.nan THEN Node("none", FALSE, <<>>) ELSE Node("float", FALSE, <<>>)
      [] obj.kind = "ndarray" -> Node("list", FALSE, ToList(obj.items))
      [] obj.kind \in {"dict", "list"} ->
            Node(obj.kind, FALSE, [i \in DOMAIN obj.items |-> ConvertNumpyTypes(obj.items[i])])
      [] obj.kind = "float" /\ obj.nan -> Node("none", FALSE, <<>>)
      [] OTHER -> obj

\* rwanda_trade_predictor.save_predictions.convert_types
RECURSIVE ConvertTypes(_)
ConvertTypes(obj) ==
    CASE obj.kind = "npint" -> Node("int", FALSE, <<>>)
      [] obj.kind = "npfloat" ->
            IF obj.nan THEN Node("none", FALSE, <<>>) ELSE Node("float", FALSE, <<>>)
      [] obj.kind = "ndarray" -> Node("list", FALSE, ToList(obj.items))
      [] obj.kind \in {"dict", "list"} ->
            Node(obj.kind, FALSE, [i \in DOMAIN obj.items |-> ConvertTypes(obj.items[i])])
      [] OTHER -> obj

\* json.dump(obj, f): the chunks written to f, in order, and whether the
\* encoder raised TypeError (the chunks before the offending value are
\* already written); numpy floats are floats, numpy ints and arrays are not
\* serializable
RECURSIVE Dump(_)
RECURSIVE DumpItems(_, _, _)
DumpItems(items, i, key) ==
    IF i > Len(items) THEN [ok |-> TRUE, chunks |-> <<>>]
    ELSE LET first == Dump(items[i])
             lead  == IF key THEN <<"key">> ELSE <<>>
         IN  IF ~first.ok THEN [ok |-> FALSE, chunks |-> lead \o first.chunks]
             ELSE LET rest == DumpItems(items, i + 1, key)
                  IN  [ok |-> rest.ok, chunks |-> lead \o first.chunks \o rest.chunks]
Dump(obj) ==
    CASE obj.kind \in {"float", "npfloat"} ->
            [ok |-> TRUE, chunks |-> <<IF obj.nan THEN "NaN" ELSE "1.0">>]
      [] obj.kind = "int" -> [ok |-> TRUE, chunks |-> <<"1">>]
      [] obj.kind = "str" -> [ok |-> TRUE, chunks |-> <<"\"s\"">>]
      [] obj.kind = "none" -> [ok |-> TRUE, chunks |-> <<"null">>]
      [] obj.kind \in {"list", "tuple"} ->
            LET body == DumpItems(obj.items, 1, FALSE)
            IN  [ok |-> body.ok,
                 chunks |-> <<"[">> \o body.chunks \o (IF body.ok THEN <<"]">> ELSE <<>>)]
      [] obj.kind = "dict" ->
            LET body == DumpItems(obj.items, 1, TRUE)
            IN  [ok |-> body.ok,
                 chunks |-> <<"{">> \o body.chunks \o (IF body.ok THEN <<"}">> ELSE <<>>)]
      [] OTHER -> [ok |-> FALSE, chunks |-> <<>>]

\* with open(filepath, 'w') as f: json.dump(data, f): the file is truncated
\* when it is opened and the chunks are written as the encoder yields them
WriteJson(data) ==
    LET dumped == Dump(data)
    IN  [outcome |-> IF dumped.ok THEN "ok" ELSE "raise", file |-> dumped.chunks]

\* TradeAnalyticsPipeline.save_json
PipelineSaveJson(data) == WriteJson(ConvertNumpyTypes(data))
\* ComprehensiveRwandaTradePredictor.save_predictions
SavePredictions(data) == WriteJson(ConvertTypes(data))
\* CommodityDataProcessor.save_json: the data is written as it is
CommoditySaveJson(data) == WriteJson(data)
\* RegionalBlocksAnalyzer.export_to_json_files, one file: an exception is
\* printed and the next file is exported
ExportToJsonFile(data) == [WriteJson(data) EXCEPT !.outcome = "ok"]

\* the file before the call: absent, or the document of an earlier run
Absent == <<"absent">>
EarlierRun == <<"{", "key", "1.0", "}">>

NotWritten == [outcome |-> "none", file |-> <<>>]

SaveInit ==
    /\ document \in Documents
    /\ disk \in {Absent, EarlierRun}
    /\ written = NotWritten
    /\ vop = "none"

SaveIdle ==
    /\ document = Node("dict", FALSE, <<>>)
    /\ disk = Absent
    /\ written = NotWritten
    /\ vop = "idle"

\* trade_analytics_pipeline.save_json
CallPipelineSaveJson ==
    /\ vop = "none"
    /\ written' = PipelineSaveJson(document)
    /\ vop' = "pipeline.save_json"
    /\ UNCHANGED <<document, disk>>
    /\ UNCHANGED <<forecastVars, metricVars, listingVars, hhiVars, extractVars, locatorVars, rankVars, growthVars, regionVars, quarterVars, runVars>>

\* rwanda_trade_predictor.save_predictions
CallSavePredictions ==
    /\ vop = "none"
    /\ written' = SavePredictions(document)
    /\ vop' = "save_predictions"
    /\ UNCHANGED <<document, disk>>
    /\ UNCHANGED <<forecastVars, metricVars, listingVars, hhiVars, extractVars, locatorVars, rankVars, growthVars, regionVars, quarterVars, runVars>>

\* commodity_data_processor.save_json
CallCommoditySaveJson ==
    /\ vop = "none"
    /\ written' = CommoditySaveJson(document)
    /\ vop' = "commodity.save_json"
    /\ UNCHANGED <<document, disk>>
    /\ UNCHANGED <<forecastVars, metricVars, listingVars, hhiVars, extractVars, locatorVars, rankVars, growthVars, regionVars, quarterVars, runVars>>

\* regional_blocks_analyzer.export_to_json_files, one file
CallExportToJsonFile ==
    /\ vop = "none"
    /\ written' = ExportToJsonFile(document)
    /\ vop' = "export_to_json_files"
    /\ UNCHANGED <<document, disk>>
    /\ UNCHANGED <<forecastVars, metricVars, listingVars, hhiVars, extractVars, locatorVars, rankVars, growthVars, regionVars, quarterVars, runVars>>

(***************************************************************************)
(* Runs of the scripts                                                     *)
(***************************************************************************)
\* commodity_data_processor: one file per sheet, then the summary
CommodityFiles ==
    <<"exportscommodity_data.json", "importscommodity_data.json",
      "reexportscommodity_data.json", "commodity_summary.json">>
\* regional_blocks_analyzer.export_to_json_files: json_files
RegionalFiles ==
    <<"regional_blocks_summary.json", "eac_analysis.json", "continental_distribution.json",
      "regional_trends.json", "regional_export_distribution.json",
      "regional_insights.json", "regional_comparison.json">>
\* trade_analytics_pipeline.run_all_analyses: one file per analysis, then
\* the summary report
PipelineFiles ==
    <<"time_series.json", "growth_analysis.json", "share_analysis.json", "hhi.json",
      "trade_balance.json", "correlations.json", "analysis_summary.json">>

Scripts == {"commodity_data_processor", "regional_blocks_analyzer", "trade_analytics_pipeline"}

\* the output files a script names
NamedFiles(s) ==
    LET files == CASE s = "commodity_data_processor" -> CommodityFiles
                   [] s = "regional_blocks_analyzer" -> RegionalFiles
                   [] s = "trade_analytics_pipeline" -> PipelineFiles
    IN  {files[i] : i \in DOMAIN files}

RunInit ==
    /\ script \in Scripts
    /\ step = 1
    /\ outputs = {}
    /\ ending = "running"

RunIdle ==
    /\ script = "none"
    /\ step = 0
    /\ outputs = {}
    /\ ending = "idle"

\* process_all_commodities, one sheet: process_commodity_sheet saves the
\* file of the sheet, or catches any exception, prints it and returns []
ProcessCommoditySheetStep ==
    /\ script = "commodity_data_processor" /\ ending = "running"
    /\ step \in 1..3
    /\ \E raised \in BOOLEAN :
          outputs' = IF raised THEN outputs ELSE outputs \cup {CommodityFiles[step]}
    /\ step' = step + 1
    /\ UNCHANGED <<script, ending>>
    /\ UNCHANGED <<forecastVars, metricVars, listingVars, hhiVars, extractVars, locatorVars, rankVars, growthVars, regionVars, quarterVars, saveVars>>

\* process_all_commodities: generate_summary and save_json of the summary,
\* outside any try
CommoditySummaryStep ==
    /\ script = "commodity_data_processor" /\ ending = "running"
    /\ step = 4
    /\ \E raised \in BOOLEAN :
          IF raised THEN ending' = "failed" /\ UNCHANGED outputs
          ELSE ending' = "completed" /\ outputs' = outputs \cup {CommodityFiles[4]}
    /\ step' = step + 1
    /\ UNCHANGED script
    /\ UNCHANGED <<forecastVars, metricVars, listingVars, hhiVars, extractVars, locatorVars, rankVars, growthVars, regionVars, quarterVars, saveVars>>

\* run_analysis: load_regional_blocks_data returns None on any exception and
\* the run returns None; analyze_regional_blocks is called outside any try
RegionalLoadAndAnalyze ==
    /\ script = "regional_blocks_analyzer" /\ ending = "running"
    /\ step = 1
    /\ \E outcome \in {"loaded", "load_failed", "analysis_raised"} :
          ending' = CASE outcome = "loaded" -> "running"
                      [] outcome = "load_failed" -> "completed"
                      [] outcome = "analysis_raised" -> "failed"
    /\ step' = step + 1
    /\ UNCHANGED <<script, outputs>>
    /\ UNCHANGED <<forecastVars, metricVars, listingVars, hhiVars, extractVars, locatorVars, rankVars, growthVars, regionVars, quarterVars, saveVars>>

\* export_to_json_files, one file: an exception is printed and the loop goes
\* on; after the last file run_analysis reports completion
RegionalExportStep ==
    /\ script = "regional_blocks_analyzer" /\ ending = "running"
    /\ step \in 2..(Len(RegionalFiles) + 1)
    /\ \E raised \in BOOLEAN :
          outputs' = IF raised THEN outputs ELSE outputs \cup {RegionalFiles[step - 1]}
    /\ ending' = IF step = Len(RegionalFiles) + 1 THEN "completed" ELSE "running"
    /\ step' = step + 1
    /\ UNCHANGED script
    /\ UNCHANGED <<forecastVars, metricVars, listingVars, hhiVars, extractVars, locatorVars, rankVars, growthVars, regionVars, quarterVars, saveVars>>

\* run_all_analyses, one analysis: it saves its file, or its exception is
\* printed and raised again
PipelineAnalysisStep ==
    /\ script = "trade_analytics_pipeline" /\ ending = "running"
    /\ step \in 1..6
    /\ \E raised \in BOOLEAN :
          IF raised THEN ending' = "failed" /\ UNCHANGED outputs
          ELSE ending' = "running" /\ outputs' = outputs \cup {PipelineFiles[step]}
    /\ step' = step + 1
    /\ UNCHANGED script
    /\ UNCHANGED <<forecastVars, metricVars, listingVars, hhiVars, extractVars, locatorVars, rankVars, growthVars, regionVars, quarterVars, saveVars>>

\* run_all_analyses: generate_summary_report, inside the same try
PipelineSummaryStep ==
    /\ script = "trade_analytics_pipeline" /\ ending = "running"
    /\ step = 7
    /\ \E raised \in BOOLEAN :
          IF raised THEN ending' = "failed" /\ UNCHANGED outputs
          ELSE ending' = "completed" /\ outputs' = outputs \cup {PipelineFiles[7]}
    /\ step' = step + 1
    /\ UNCHANGED script
    /\ UNCHANGED <<forecastVars, metricVars, listingVars, hhiVars, extractVars, locatorVars, rankVars, growthVars, regionVars, quarterVars, saveVars>>

(***************************************************************************)
(* Specifications                                                          *)
(***************************************************************************)
\* forecast_time_series applied to every bounded input
Init == ForecastInit /\ MetricIdle /\ ListingIdle /\ HhiIdle /\ ExtractIdle /\ LocatorIdle /\ RankIdle /\ GrowthIdle /\ RegionIdle /\ QuarterIdle /\ SaveIdle /\ RunIdle
Next == CallForecastTimeSeries
Spec == Init /\ [][Next]_vars

\* the per-row metric routines applied to every bounded series
MetricsInitAll ==
    MetricInit /\ ForecastIdle /\ ListingIdle /\ HhiIdle /\ ExtractIdle /\ LocatorIdle /\ RankIdle /\ GrowthIdle /\ RegionIdle /\ QuarterIdle /\ SaveIdle /\ RunIdle
MetricsNext ==
    \/ CallCalculateMetricsV3
    \/ CallProcessExportsCommodityRow
    \/ CallCalculateCagr
    \/ CallEnhancedCalculateGrowthRate
    \/ CallAnalyzeExportGrowth
SpecMetrics == MetricsInitAll /\ [][MetricsNext]_vars

\* the listing routines applied to every bounded sheet
ListingInitAll ==
    ListingInit /\ ForecastIdle /\ MetricIdle /\ HhiIdle /\ ExtractIdle /\ LocatorIdle /\ RankIdle /\ GrowthIdle /\ RegionIdle /\ QuarterIdle /\ SaveIdle /\ RunIdle
ListingNext ==
    \/ CallProcessExportsCommodity
    \/ CallProcessCountryExports
    \/ CallProcessCommodityExports
SpecListing == ListingInitAll /\ [][ListingNext]_vars

\* the concentration analyses applied to every bounded listing
HhiInitAll ==
    HhiInit /\ ForecastIdle /\ MetricIdle /\ ListingIdle /\ ExtractIdle /\ LocatorIdle /\ RankIdle /\ GrowthIdle /\ RegionIdle /\ QuarterIdle /\ SaveIdle /\ RunIdle
HhiNext ==
    \/ CallPerformHhiAnalysis
    \/ CallAnalyzeExportConcentration
SpecHhi == HhiInitAll /\ [][HhiNext]_vars

\* the extraction routines applied to every bounded sheet
ExtractInitAll ==
    ExtractInit /\ ForecastIdle /\ MetricIdle /\ ListingIdle /\ HhiIdle /\ LocatorIdle /\ RankIdle /\ GrowthIdle /\ RegionIdle /\ QuarterIdle /\ SaveIdle /\ RunIdle
ExtractNext ==
    \/ CallProcessCommoditySheet
    \/ CallExtractExportsCommodity
    \/ CallExtractCountryExports
    \/ CallProcessCountryData
    \/ CallPerformShareAnalysis
    \/ CallProcessCommodityData
    \/ CallPredictorProcessCountryData
SpecExtract == ExtractInitAll /\ [][ExtractNext]_vars

\* the header-locating routines applied to every bounded sheet
LocatorInitAll ==
    LocatorInit /\ ForecastIdle /\ MetricIdle /\ ListingIdle /\ HhiIdle /\ ExtractIdle /\ RankIdle /\ GrowthIdle /\ RegionIdle /\ QuarterIdle /\ SaveIdle /\ RunIdle
LocatorNext ==
    \/ CallLocateCommoditySheet
    \/ CallLocateExportsCommodity
    \/ CallLoadRegionalBlocksData
    \/ CallPredictorFindDataStart
SpecLocator == LocatorInitAll /\ [][LocatorNext]_vars

\* the ranking routines applied to every bounded list of records
RankInitAll ==
    RankInit /\ ForecastIdle /\ MetricIdle /\ ListingIdle /\ HhiIdle /\ ExtractIdle /\ LocatorIdle /\ GrowthIdle /\ RegionIdle /\ QuarterIdle /\ SaveIdle /\ RunIdle
RankNext ==
    \/ CallGenerateSummary
    \/ CallRankCountryExports
    \/ CallRankCommodityExports
    \/ CallProcessReexportData
SpecRank == RankInitAll /\ [][RankNext]_vars

\* the growth analyses applied to every bounded overall series and to the
\* fixed ones
GrowthInitAll ==
    GrowthInit /\ ForecastIdle /\ MetricIdle /\ ListingIdle /\ HhiIdle /\ ExtractIdle /\ LocatorIdle /\ RankIdle /\ RegionIdle /\ QuarterIdle /\ SaveIdle /\ RunIdle
GrowthNext ==
    \/ CallPerformGrowthAnalysis
    \/ CallAnalyzeExportGrowthRates
SpecGrowth == GrowthInitAll /\ [][GrowthNext]_vars

\* the regional loaders applied to every bounded sheet
RegionInitAll ==
    RegionInit /\ ForecastIdle /\ MetricIdle /\ ListingIdle /\ HhiIdle /\ ExtractIdle /\ LocatorIdle /\ RankIdle /\ GrowthIdle /\ QuarterIdle /\ SaveIdle /\ RunIdle
RegionNext ==
    \/ CallProcessRegionalBlocks
    \/ CallProcessContinentalData
SpecRegion == RegionInitAll /\ [][RegionNext]_vars

\* generate_next_quarters applied to every label and number of periods
QuarterInitAll ==
    QuarterInit /\ ForecastIdle /\ MetricIdle /\ ListingIdle /\ HhiIdle /\ ExtractIdle /\ LocatorIdle /\ RankIdle /\ GrowthIdle /\ RegionIdle /\ SaveIdle /\ RunIdle
QuarterNext ==
    \/ CallGenerateNextQuarters
SpecQuarter == QuarterInitAll /\ [][QuarterNext]_vars

\* the save routines applied to every bounded document
SaveInitAll ==
    SaveInit /\ ForecastIdle /\ MetricIdle /\ ListingIdle /\ HhiIdle /\ ExtractIdle /\ LocatorIdle /\ RankIdle /\ GrowthIdle /\ RegionIdle /\ QuarterIdle /\ RunIdle
SaveNext ==
    \/ CallPipelineSaveJson
    \/ CallSavePredictions
    \/ CallCommoditySaveJson
    \/ CallExportToJsonFile
SpecSave == SaveInitAll /\ [][SaveNext]_vars

\* the runs of the three scripts, every step of which may raise
RunInitAll ==
    RunInit /\ ForecastIdle /\ MetricIdle /\ ListingIdle /\ HhiIdle /\ ExtractIdle /\ LocatorIdle /\ RankIdle /\ GrowthIdle /\ RegionIdle /\ QuarterIdle /\ SaveIdle
RunNext ==
    \/ ProcessCommoditySheetStep
    \/ CommoditySummaryStep
    \/ RegionalLoadAndAnalyze
    \/ RegionalExportStep
    \/ PipelineAnalysisStep
    \/ PipelineSummaryStep
SpecRun == RunInitAll /\ [][RunNext]_vars

(***************************************************************************)
(* Claims about forecast_time_series                                       *)
(***************************************************************************)
Done == pc = "done"

\* the estimator a requested method starts with (the ensemble only reaches ARIMA)
C1_FirstStage(m) ==
    CASE m = "exp_smooth"   -> "exponential_smoothing"
      [] m = "arima"        -> "arima"
      [] m = "sarimax"      -> "sarimax"
      [] m = "linear_trend" -> "linear_trend"
      [] m = "ensemble"     -> "arima"

\* the stage that follows a failed stage, as the code chains them
C1_CodeFallback ==
    [exponential_smoothing |-> "linear_trend", sarimax |-> "arima",
     arima |-> "linear_trend", linear_trend |-> "average"]

\* the stage that follows a failed stage, as the claim orders them
C1_ClaimedFallback ==
    [exponential_smoothing |-> "arima", sarimax |-> "arima",
     arima |-> "linear_trend", linear_trend |-> "average"]

\* the attempts made by one call follow the fallback table `next`: every
\* attempt but the last failed and is followed by its table successor, and
\* the last attempt succeeded
FollowsChain(attempts, next) ==
    \A i \in 1..Len(attempts) :
        IF i < Len(attempts)
        THEN /\ ~attempts[i].ok
             /\ attempts[i].stage \in DOMAIN next
             /\ attempts[i + 1].stage = next[attempts[i].stage]
        ELSE attempts[i].ok

C2_EnsembleIsAverageOfThree ==
    (Done /\ Len(values) >= 2 /\ ResolvedMethod(method) = "ensemble") =>
        result.forecast =
            PointwiseMean(<<ForecastExponentialSmoothing(values, periods, lib).forecast,
                            ForecastArima(values, periods, lib).forecast,
                            ForecastLinearTrend(values, periods, lib).forecast>>,
                          periods)

\* C3 (as stated): every value of the returned forecast list is >= 0.
C3_ForecastNonNegative ==
    Done => \A i \in 1..Len(result.forecast) : RLe(RInt(0), result.forecast[i])

\* the confidence table of the claim, and the one method name outside it
C4_ConfidenceTable ==
    [ensemble |-> 85, exponential_smoothing |-> 75, arima |-> 70,
     linear_trend |-> 65, average |-> 50, average_fallback |-> 40]

GrowthRoutines == {"calculate_metrics_v3", "process_exports_commodity"}
\* routines that compute a compound growth rate
CagrRoutines == {"calculate_cagr", "calculate_growth_rate", "analyze_export_growth"}
\* routines that build a listing
ListingRoutines ==
    {"process_exports_commodity", "process_country_exports", "process_commodity_exports"}

\* C5 (as stated): no metric routine raises on insufficient or degenerate
\* input (empty series, single point, first value 0, empty record list); each
\* returns its fallback value.
C5_NoRoutineRaises ==
    /\ mop \in CagrRoutines => metrics.kind # "raise"
    /\ lop \in ListingRoutines => report.outcome # "raise"

\* C6 (as stated): the period-over-period growth rate is
\* (last - previous) / previous * 100 (possibly rounded to two decimals) when
\* the series has at least 2 values and previous # 0, and 0 otherwise; the
\* field is reported, never left out.
C6_GrowthRate ==
    mop \in GrowthRoutines =>
        /\ "qoq_growth" \in DOMAIN metrics
        /\ LET n == Len(series)
                expected == IF n >= 2
                            THEN IF series[n - 1] # 0
                                 THEN GrowthPct(series[n], series[n - 1])
                                 ELSE RInt(0)
                            ELSE RInt(0)
            IN  metrics["qoq_growth"] \in {expected, Round2(expected)}

\* C7 (as stated): year-over-year growth compares the last value with the
\* value 4 positions before it (0 on a zero base) and is absent from the
\* result whenever the series has 4 or fewer values.
C7_YoyGrowth ==
    mop \in GrowthRoutines =>
        LET n == Len(series)
        IN  IF n <= 4
            THEN "yoy_growth" \notin DOMAIN metrics
            ELSE /\ "yoy_growth" \in DOMAIN metrics
                 /\ LET expected == IF series[n - 4] # 0
                                     THEN GrowthPct(series[n], series[n - 4])
                                     ELSE RInt(0)
                     IN  metrics["yoy_growth"] \in {expected, Round2(expected)}

\* C8 (as stated): every CAGR computation returns 0 when the first value is
\* <= 0 or the series has fewer than 2 values, and otherwise
\* (last / first) ^ (1 / years) - 1, years = number of quarters / 4.
C8_Cagr ==
    mop \in CagrRoutines =>
        LET n == Len(series)
        IN  metrics = IF n < 2 THEN Num(0)
                      ELSE IF series[1] <= 0 THEN Num(0)
                      ELSE PowMinus1(Rat(series[n], series[1]), Rat(4, n))

ListingTotal == RSumSeq([i \in 1..Len(report.listing) |-> report.listing[i].total_exports])
\* the sum of the shares of the records of the built listing
ListingShares ==
    RSumSeq([i \in 1..Len(report.listing) |-> report.listing[i].share_percentage])

C12_ClaimedTrend(vs) ==
    IF Len(vs) < 3 THEN "Insufficient Data"
    ELSE LET a == vs[Len(vs) - 2]
             b == vs[Len(vs) - 1]
             c == vs[Len(vs)]
         IN  IF a < b /\ b < c THEN "Strong Growth"
             ELSE IF c > b THEN "Moderate Growth"
             ELSE IF a > b /\ b > c THEN "Declining"
             ELSE "Stable"

\* C12: the trend field of every record is decided by the last three values
\* a, b, c of its series alone: 'Strong Growth' if a < b < c, else 'Moderate
\* Growth' if c > b, else 'Declining' if a > b > c, else 'Stable', and
\* 'Insufficient Data' for fewer than three values.
C12_TrendLabel ==
    (mop \in GrowthRoutines /\ "trend" \in DOMAIN metrics) =>
        metrics["trend"] = C12_ClaimedTrend(series)

(***************************************************************************)
(* Claims about the concentration analyses                                 *)
(***************************************************************************)
HhiRoutines == {"perform_hhi_analysis", "analyze_export_concentration"}

\* the class a label stands for, whichever routine wrote it
HhiClass(label) ==
    CASE label \in {"Highly competitive market", "Highly competitive"} -> "highly competitive"
      [] label \in {"Unconcentrated market", "Unconcentrated"} -> "unconcentrated"
      [] label = "Moderately concentrated" -> "moderately concentrated"
      [] label \in {"Highly concentrated market", "Highly concentrated"} -> "highly concentrated"
      [] OTHER -> "unknown"

C11_ClaimedClass(h) ==
    IF RLt(h, Rat(1, 100)) THEN "highly competitive"
    ELSE IF RLt(h, Rat(15, 100)) THEN "unconcentrated"
    ELSE IF RLt(h, Rat(25, 100)) THEN "moderately concentrated"
    ELSE "highly concentrated"

\* C11: every HHI value gets the class fixed by the exact boundaries 0.01,
\* 0.15 and 0.25 (each boundary belongs to the upper class), and the two
\* implementations of interpret_hhi give the same class to the same value.
C11_HhiClassification ==
    hop \in HhiRoutines =>
        /\ HhiClass(concentration.interpretation) = C11_ClaimedClass(concentration.hhi)
        /\ HhiClass(PipelineInterpretHhi(concentration.hhi)) = C11_ClaimedClass(concentration.hhi)
        /\ HhiClass(EnhancedInterpretHhi(concentration.hhi)) = C11_ClaimedClass(concentration.hhi)

\* an index exactly on the 0.15 boundary was classified
C11_Witness ==
    /\ hop = "analyze_export_concentration"
    /\ concentration.hhi = Rat(15, 100)
    /\ concentration.interpretation = "Moderately concentrated"

(***************************************************************************)
(* Claims about record extraction                                          *)
(***************************************************************************)
Extracting == eop \in ExtractionRoutines

\* the row of the sheet a record was read from
SourceRow(rec) == grid[rec.row]

\* the identifier cell is blank or a reserved sentinel: 'nan', 'total' or ''
\* in any letter case after trimming, or any text containing 'source:'
C13_Sentinel(id) ==
    \/ ~NotNa(id)
    \/ Lower(Strip(id.s)) \in {"nan", "total", ""}
    \/ Lower(id.s) = "source: nisr"

\* C13: no extraction routine emits a record for a row whose identifier cell
\* is blank, is 'nan', 'total' or '' in any letter case after trimming, or
\* contains 'source:' in any letter case.
C13_NoSentinelRecord ==
    Extracting =>
        \A k \in DOMAIN extraction.records :
            ~C13_Sentinel(SourceRow(extraction.records[k]).id)

\* C14: every record an extraction routine emits comes from a row with at
\* least one period cell that is not blank; a row whose period cells are all
\* blank yields no record.
C14_NoRecordForBlankRow ==
    Extracting =>
        \A k \in DOMAIN extraction.records :
            \E q \in 1..NumQuarters : NotNa(CellAt(SourceRow(extraction.records[k]), q))

\* the routines that read a numeric-coded commodity sheet
SitcRoutines == {"process_commodity_sheet", "process_exports_commodity"}

\* the identifier cell denotes exactly one of the integer codes 0..9
C15_DenotesSection(id) == id.t \in {"int", "str"} /\ Strip(id.s) \in SitcSections

\* C15: on a numeric-coded commodity sheet every emitted record's
\* sitc_section is one of '0'..'9', and a record is emitted only for a row
\* whose identifier cell denotes exactly one of those integer codes.
C15_SingleDigitSections ==
    eop \in SitcRoutines =>
        \A k \in DOMAIN extraction.records :
            /\ extraction.records[k].key \in SitcSections
            /\ C15_DenotesSection(SourceRow(extraction.records[k]).id)

\* processing the row hits a cell that cannot be converted to a number
C16_FailingRow(row) ==
    \/ \E q \in 1..NumQuarters : CellAt(row, q).t = "str"
    \/ (IsDigitWithoutDots(row.id.s) /\ ~FloatParses(row.id.s))

\* the sheet with the offending cells of row i left blank
C16_Repaired(g, i) ==
    [g EXCEPT ![i] =
        [id    |-> IF IsDigitWithoutDots(g[i].id.s) /\ ~FloatParses(g[i].id.s)
                   THEN BlankCell ELSE g[i].id,
         cells |-> [q \in DOMAIN g[i].cells |->
                       IF g[i].cells[q].t = "str" THEN BlankCell ELSE g[i].cells[q]]]]

\* the routine emits a record for row j of the sheet g
C16_Emits(op, g, j) ==
    \E k \in DOMAIN RunExtraction(op, g).records : RunExtraction(op, g).records[k].row = j

\* C16: a failure while processing one row never aborts an extraction
\* routine; the row is skipped and every later row that is emitted when the
\* failure is absent is still emitted.
C16_RowFailureIsLocal ==
    Extracting =>
        /\ extraction.outcome # "raise"
        /\ \A i, j \in DOMAIN grid :
              (i < j /\ C16_FailingRow(grid[i]) /\ C16_Emits(eop, C16_Repaired(grid, i), j))
                  => \E k \in DOMAIN extraction.records : extraction.records[k].row = j

\* the key of a row: its identifier text after trimming
C17_Key(row) == NameOf(row.id)

\* the record emitted for row i, if any, with the values read from that row
C17_Kept(i) ==
    \E k \in DOMAIN extraction.records :
        /\ extraction.records[k].row = i
        /\ extraction.records[k].values = RunExtraction(eop, <<grid[i]>>).records[1].values

\* C17: the keys of the emitted records are unique within a sheet, and when
\* two rows of a sheet have the same key after trimming, the earlier row's
\* values are neither dropped nor overwritten (no routine reports duplicates).
C17_UniqueKeysNoSilentMerge ==
    (Extracting /\ extraction.outcome = "ok") =>
        /\ \A k, l \in DOMAIN extraction.records :
              extraction.records[k].key = extraction.records[l].key => k = l
        /\ \A i, j \in DOMAIN grid :
              (/\ i < j
               /\ C17_Key(grid[i]) = C17_Key(grid[j])
               /\ RunExtraction(eop, <<grid[i]>>).records # <<>>
               /\ RunExtraction(eop, <<grid[j]>>).records # <<>>)
                  => C17_Kept(i)

(***************************************************************************)
(* Claims about header location                                            *)
(***************************************************************************)
LocatorRoutines ==
    {"process_commodity_sheet", "process_exports_commodity",
     "load_regional_blocks_data", "_process_commodity_data"}

\* the routine op takes the row for a header row
Recognises(op, row) ==
    CASE op = "process_commodity_sheet"   -> ContainsAnyCase(row)
      [] op = "process_exports_commodity" -> ContainsExact(row)
      [] op = "load_regional_blocks_data" -> ContainsExact(row)
      [] op = "_process_commodity_data"   -> FirstCellContainsAnyCase(row)
      [] OTHER -> FALSE

\* C18: when a routine finds the marker, the header row it chooses is the
\* first row from the top that holds the marker, and the first data row is
\* the row right after it (marker in row 3 only: header 3, data from row 4).
C18_FirstMarkerRowThenData ==
    \A i \in DOMAIN sheet :
        (/\ sop \in LocatorRoutines
         /\ Recognises(sop, sheet[i])
         /\ \A k \in 1..(i - 1) : ~Recognises(sop, sheet[k]))
            => /\ located.outcome = "ok"
               /\ located.header = i - 1
               /\ located.data_start = i

\* the marker stands in row 3 and nowhere else: header 3, data from row 4
C18_Witness ==
    /\ sop = "process_commodity_sheet"
    /\ Len(sheet) = 5
    /\ \A i \in DOMAIN sheet : ContainsAnyCase(sheet[i]) <=> i = 4
    /\ located = Located("ok", 3, 4)

\* C19: every header-locating routine takes for the header the first row in
\* which any cell, in any column, contains the marker token in any letter
\* case.
C19_MarkerAnyColumnAnyCase ==
    \A i \in DOMAIN sheet :
        (/\ sop \in LocatorRoutines
         /\ ContainsAnyCase(sheet[i])
         /\ \A k \in 1..(i - 1) : ~ContainsAnyCase(sheet[k]))
            => /\ located.outcome = "ok"
               /\ located.header = i - 1

\* C20: when no row of the sheet contains the marker token, header location
\* does not abort the run; it falls back to a default header index and the
\* data is read from the row after that default.
C20_DefaultHeaderWithoutMarker ==
    (sop \in LocatorRoutines /\ \A i \in DOMAIN sheet : ~ContainsAnyCase(sheet[i]))
        => /\ located.outcome # "exit"
           /\ located.outcome = "ok" => located.data_start = located.header + 1

(***************************************************************************)
(* Claims about rankings                                                   *)
(***************************************************************************)
TopRoutines == {"generate_summary", "process_country_exports", "process_commodity_exports"}

\* C21: a top-N listing has min(N, number of records) entries, each a
\* different record of the listing, in non-increasing order of the ranking
\* value, and no record left out of it has a strictly larger ranking value
\* than a record in it.
C21_TopN ==
    (kop \in TopRoutines /\ ranking.outcome = "ok") =>
        LET top == ranking.top
            all == ranking.listing
            n   == ranking.n
        IN  /\ Len(top) = IF Len(all) < n THEN Len(all) ELSE n
            /\ \A k \in DOMAIN top : \E i \in DOMAIN all : all[i] = top[k]
            /\ \A k, l \in DOMAIN top : top[k].id = top[l].id => k = l
            /\ \A k \in 1..(Len(top) - 1) : RLe(top[k + 1].value, top[k].value)
            /\ \A i \in DOMAIN all :
                  (\A k \in DOMAIN top : top[k].id # all[i].id)
                      => \A k \in DOMAIN top : RLe(all[i].value, top[k].value)

\* six commodities, the largest of them last: five are listed, led by it
C21_Witness ==
    /\ kop = "generate_summary"
    /\ Len(extracted) = 6
    /\ Len(ranking.top) = 5
    /\ ranking.top[1].id = 6
    /\ RLt(ranking.top[5].value, ranking.top[1].value)

\* C29: the summary of the re-export analysis names as top re-export
\* country the country of the first entry of the sorted 'countries' listing
\* written beside it (and likewise the top re-export commodity).
C29_TopReexportIsFirstListed ==
    (kop = "process_reexport_data" /\ ranking.listing # <<>>) =>
        ranking.first = ranking.listing[1].id

(***************************************************************************)
(* Claims about the growth analysis                                        *)
(***************************************************************************)
\* the quarter-over-quarter change of pair (i, i + 1) of a series is more
\* than 10% in absolute value
Significant(vs, i) ==
    /\ vs[i] # 0
    /\ RLt(RInt(10), RAbs(RMul(Rat(vs[i + 1] - vs[i], vs[i]), RInt(100))))

Reported(flow, i) ==
    \E k \in DOMAIN growth.insights :
        /\ growth.insights[k].kind = "qoq"
        /\ growth.insights[k].flow = flow
        /\ growth.insights[k].from = i

\* C22: the growth analysis reports a growth insight for every pair of
\* consecutive quarters whose quarter-over-quarter change is more than 10%
\* in absolute value, for exports and for imports, the last pair included,
\* and none for a pair whose change is at most 10%.
C22_InsightForEverySignificantPair ==
    gop = "perform_growth_analysis" =>
        \A i \in 1..(Len(overall.quarters) - 1) :
            /\ Reported("Exports", i) <=> Significant(overall.exports, i)
            /\ Reported("Imports", i) <=> Significant(overall.imports, i)

\* a list of rates lies beside a list of quarter labels: as many rates as
\* labels, the k-th rate computed for the k-th label
Aligned(rates, labels) ==
    /\ Len(rates) = Len(labels)
    /\ \A k \in DOMAIN rates : k \in DOMAIN labels /\ rates[k].at = labels[k]

C30_SeriesFromOwnFlow ==
    rop \in {"_process_regional_blocks", "_process_continental_data"} =>
        \A e \in DOMAIN regions :
            \A key \in DOMAIN regions[e].flows :
                \E i \in 2..Len(blocks) :
                    /\ NameOf(blocks[i].id) = regions[e].key
                    /\ blocks[i].flow = key
                    /\ regions[e].flows[key] = QuarterlyValues(blocks[i])

(***************************************************************************)
(* Claims about the linear-trend forecast and the quarter labels           *)
(***************************************************************************)
\* the line intercept + slope * x is the least-squares line of the series on
\* the indices 0..n-1: its residuals sum to 0 and are orthogonal to the
\* indices (the normal equations)
LeastSquares(vs, intercept, slope) ==
    LET residual(i) == RSub(RInt(vs[i]), RAdd(intercept, RMul(slope, RInt(i - 1))))
    IN  /\ RSumSeq([i \in 1..Len(vs) |-> residual(i)]) = RInt(0)
        /\ RSumSeq([i \in 1..Len(vs) |-> RMul(RInt(i - 1), residual(i))]) = RInt(0)

\* the series rises by the same positive step between any two neighbours
ExactlyLinearRising(vs) ==
    /\ Len(vs) >= 2
    /\ vs[2] > vs[1]
    /\ \A i \in 1..(Len(vs) - 1) : vs[i + 1] - vs[i] = vs[2] - vs[1]

\* C26: the linear-trend forecast of n values with horizon h (the fit of a
\* single estimator ending in a linear trend that did not raise) has exactly
\* h values, method 'linear_trend' and confidence 65; its i-th value is the
\* least-squares line on the indices 0..n-1 evaluated at n+i-1, floored at
\* 0; for an exactly linear rising series every value is at least the last
\* observed one, and [100, 110, 120, 130] with h = 1 gives 140.
C26_LinearTrendForecast ==
    (pc = "done" /\ ResolvedMethod(method) # "ensemble" /\ result.attempts # <<>>
        /\ result.attempts[Len(result.attempts)] = Attempt("linear_trend", TRUE)) =>
        LET n == Len(values)
            intercept == LinePred(values, 0)
            slope == RSub(LinePred(values, 1), intercept)
        IN  /\ result.method = "linear_trend"
            /\ result.confidence = 65
            /\ Len(result.forecast) = periods
            /\ LeastSquares(values, intercept, slope)
            /\ \A i \in 1..periods :
                  LET pred == RAdd(intercept, RMul(slope, RInt(n + i - 1)))
                  IN  result.forecast[i] = IF RLt(pred, RInt(0)) THEN RInt(0) ELSE pred
            /\ ExactlyLinearRising(values) =>
                  \A i \in 1..periods : RLe(RInt(values[n]), result.forecast[i])
            /\ (values = <<100, 110, 120, 130>> /\ periods = 1) =>
                  result.forecast = <<RInt(140)>>

\* the scenario series is extrapolated by the linear trend to 140
C26_Witness ==
    /\ pc = "done"
    /\ values = <<100, 110, 120, 130>>
    /\ periods = 1
    /\ result.method = "linear_trend"
    /\ result.forecast = <<RInt(140)>>

\* the number of a quarter on the time line
QuarterNumber(l) == 4 * l.year + (l.quarter - 1)

\* C27: generate_next_quarters returns exactly `periods` labels, each with a
\* quarter in 1..4, for every input, unparsable ones included, and
\* consecutive results are consecutive quarters; for a parsable label the
\* k-th result is the quarter k steps after it (the year grows by one exactly
\* when the quarter wraps from 4 to 1).
C27_NextQuarters ==
    qop = "generate_next_quarters" =>
        /\ Len(next_quarters) = forecast_periods
        /\ \A k \in DOMAIN next_quarters : next_quarters[k].quarter \in 1..4
        /\ \A k \in 1..(Len(next_quarters) - 1) :
              QuarterNumber(next_quarters[k + 1]) = QuarterNumber(next_quarters[k]) + 1
        /\ ParseQuarter(last_quarter).ok =>
              \A k \in DOMAIN next_quarters :
                  QuarterNumber(next_quarters[k]) = QuarterNumber(ParseQuarter(last_quarter)) + k

(***************************************************************************)
(* Claims about the output files                                           *)
(***************************************************************************)
SaveRoutines == {"pipeline.save_json", "save_predictions", "commodity.save_json"}

\* C23: no NaN is ever written into an output document: whatever nested
\* structure of dicts, lists, arrays and numbers is handed to a save
\* routine, no NaN token is in the file after the call.
C23_NoNaNWritten ==
    vop \in SaveRoutines => \A i \in DOMAIN written.file : written.file[i] # "NaN"

\* C24: no output file is left partially written: after a call, failed
\* during serialization or not, the file holds the complete document of
\* this call or is exactly as it was before.
C24_CompleteOrUntouched ==
    vop \in {"commodity.save_json", "export_to_json_files"} =>
        \/ Dump(document).ok /\ written.file = Dump(document).chunks
        \/ written.file = disk

\* C25: a run ends with every output file the script names written during
\* this run, or with a top-level failure: it never ends normally while one
\* of its output files was not written.
C25_CompleteOrFailed ==
    [](ending = "completed" => outputs = NamedFiles(script))

====
